---- MODULE Spec2Model ----
(***************************************************************************)
(* A model of const_sort_rs: the pattern-defeating quicksort of            *)
(* const_sort_core.rs (insertion sort, heapsort, pivot choice, block        *)
(* partitioning, the recursion driver) and the slice extension methods of   *)
(* const_slice_sort_ext.rs that are built on it.                            *)
(*                                                                          *)
(* Slices are sequences; the code's zero-based indices are kept, so the     *)
(* element at index i of a view w is w[i + 1].                              *)
(***************************************************************************)
EXTENDS Integers, Sequences, FiniteSets, TLC

VARIABLES
  v,      \* the slice the operation works on (the root view)
  orig,   \* the slice as it was handed to the operation
  pc,     \* "idle", the running operation, "done" or "panicked"
  op,     \* the entry point that was called
  cmpk,   \* the comparator the caller passed
  ncalls, \* comparator invocations made so far by the running operation
  stack,  \* the active frames of recurse, innermost last
  heap,   \* the position of a running const_heapsort
  scan,   \* the position of a running const_is_sorted_by
  blocks, \* the position and the locals of a running partition_in_blocks
  ret     \* what the operation returned

vars == <<v, orig, pc, op, cmpk, ncalls, stack, heap, scan, blocks, ret>>

----------------------------------------------------------------------------
(* Bounds of the model. *)

\* Short slices: every sequence over 0..MaxVal of length 0..MaxLen.
MaxLen == 4
MaxVal == 2
\* Long slices: lengths MAX_INSERTION + 1 .. MAX_INSERTION + BigExtra.
BigExtra == 7

\* partition and partition_equal are also called on views of
\* 2 * BLOCK + 3 .. 2 * BLOCK + 2 + WideExtra elements.
WideExtra == 2

\* On a view longer than two blocks the comparator is made to unwind at
\* every PanicStride-th of its invocations and at the last one.
PanicStride == 32
\* Period of the answers of an inconsistent comparator.
OracleLen == 3

(* Program constants. *)
MAX_INSERTION == 20
MAX_STEPS == 5
SHORTEST_SHIFTING == 50
BLOCK == 128
SHORTEST_MEDIAN_OF_MEDIANS == 50
MAX_SWAPS == 12
USIZE_BITS == 64

----------------------------------------------------------------------------
(* Slices. *)

At(w, i) == w[i + 1]

Put(w, i, x) == [w EXCEPT ![i + 1] = x]

InB(w, i) == 0 <= i /\ i < Len(w)

\* slice::swap
Swap(w, i, j) == [w EXCEPT ![i + 1] = w[j + 1], ![j + 1] = w[i + 1]]

\* &w[lo..hi]
Sub(w, lo, hi) == SubSeq(w, lo + 1, hi)

\* Writing a sub-view back where it lies in its parent: a view aliases the
\* parent's memory from index lo on.
Splice(w, lo, sub) ==
  [k \in 1..Len(w) |->
     IF lo < k /\ k <= lo + Len(sub) THEN sub[k - lo] ELSE w[k]]

\* slice::reverse
Reverse(w) == [k \in 1..Len(w) |-> w[Len(w) + 1 - k]]

Min2(a, b) == IF a < b THEN a ELSE b

Range(w) == {w[k] : k \in 1..Len(w)}

CountOf(w, x) == Cardinality({k \in 1..Len(w) : w[k] = x})

\* The two slices hold the same elements, each as often.
IsPermutation(a, b) ==
  /\ Len(a) = Len(b)
  /\ Range(a) = Range(b)
  /\ \A x \in Range(a) : CountOf(a, x) = CountOf(b, x)

----------------------------------------------------------------------------
(* Comparators.  A comparator is a record: kind names the function the     *)
(* caller passed, bits are the answers of an inconsistent one (call number  *)
(* n answers bits[n % Len(bits)]), panicAt is the call that aborts (-1:    *)
(* none).                                                                   *)

Orderings == {"Less", "Equal", "Greater"}

\* Ord::cmp
OrdCmp(a, b) == IF a < b THEN "Less" ELSE IF a = b THEN "Equal" ELSE "Greater"

\* The compare closure handed to the *_by methods.
compare(c, a, b, n) ==
  CASE c.kind = "cmp" -> OrdCmp(a, b)
    [] c.kind = "rev" -> OrdCmp(b, a)
    [] OTHER -> c.bits[(n % Len(c.bits)) + 1]

\* The is_less the sort runs with: PartialOrd::lt for const_sort_unstable,
\* |a, b| compare(a, b) == Ordering::Less for const_sort_unstable_by.
is_less(c, a, b, n) ==
  CASE c.kind = "lt" -> a < b
    [] c.kind = "gt" -> a > b
    [] OTHER -> compare(c, a, b, n) = "Less"

Panics(c, n) == c.panicAt = n

Cmp(kind) == [kind |-> kind, bits |-> <<>>, panicAt |-> -1]

Oracle(bits) == [kind |-> "oracle", bits |-> bits, panicAt |-> -1]

Oracles == {Oracle(b) : b \in [1..OracleLen -> Orderings]}

\* A running computation: the view, the comparator calls made, and how it
\* stands ("ok", "panic": the comparator or a checked operation aborted,
\* "oob": an unchecked access left the view).
St(w, n) == [v |-> w, n |-> n, err |-> "ok"]

Fail(s, e) == [s EXCEPT !.err = e]

----------------------------------------------------------------------------
(* CopyOnDrop: dropping the guard copies the held-out element into dest.   *)

\* A guard that is forgotten instead of dropped: the hole is never filled.
CopyOnDrop_forgotten(w, src, dest) == w

CopyOnDrop(w, src, dest) == Put(w, dest, src)

----------------------------------------------------------------------------
(* shift_tail, shift_head, insertion_sort.                                  *)

\* The loop with no guard alive while the comparator runs: an unwinding
\* comparator leaves the hole as it is.
RECURSIVE shift_tail_loop_unguarded(_, _, _, _, _)
shift_tail_loop_unguarded(s, c, tmp, i, dest) ==
  IF i > 0
  THEN LET j == i - 1 IN
       IF Panics(c, s.n)
       THEN [s EXCEPT !.err = "panic"]
       ELSE IF ~is_less(c, tmp, At(s.v, j), s.n)
       THEN [s EXCEPT !.v = CopyOnDrop(s.v, tmp, dest), !.n = @ + 1]
       ELSE shift_tail_loop_unguarded(
              [s EXCEPT !.v = Put(s.v, j + 1, At(s.v, j)), !.n = @ + 1],
              c, tmp, j, j)
  ELSE [s EXCEPT !.v = CopyOnDrop(s.v, tmp, dest)]

RECURSIVE shift_tail_loop(_, _, _, _, _)
shift_tail_loop(s, c, tmp, i, dest) ==
  IF i > 0
  THEN LET j == i - 1 IN
       IF Panics(c, s.n)
       THEN [s EXCEPT !.v = CopyOnDrop(s.v, tmp, dest), !.err = "panic"]
       ELSE IF ~is_less(c, tmp, At(s.v, j), s.n)
       THEN [s EXCEPT !.v = CopyOnDrop(s.v, tmp, dest), !.n = @ + 1]
       ELSE shift_tail_loop(
              [s EXCEPT !.v = Put(s.v, j + 1, At(s.v, j)), !.n = @ + 1],
              c, tmp, j, j)
  ELSE [s EXCEPT !.v = CopyOnDrop(s.v, tmp, dest)]

shift_tail(s, c) ==
  LET len == Len(s.v) IN
  IF len < 2 THEN s
  ELSE IF Panics(c, s.n) THEN Fail(s, "panic")
  ELSE IF ~is_less(c, At(s.v, len - 1), At(s.v, len - 2), s.n)
  THEN [s EXCEPT !.n = @ + 1]
  ELSE shift_tail_loop(
         [s EXCEPT !.v = Put(s.v, len - 1, At(s.v, len - 2)), !.n = @ + 1],
         c, At(s.v, len - 1), len - 2, len - 2)

\* The loop with no guard alive while the comparator runs.
RECURSIVE shift_head_loop_unguarded(_, _, _, _, _)
shift_head_loop_unguarded(s, c, tmp, i, dest) ==
  IF i < Len(s.v)
  THEN IF Panics(c, s.n)
       THEN [s EXCEPT !.err = "panic"]
       ELSE IF ~is_less(c, At(s.v, i), tmp, s.n)
       THEN [s EXCEPT !.v = CopyOnDrop(s.v, tmp, dest), !.n = @ + 1]
       ELSE shift_head_loop_unguarded(
              [s EXCEPT !.v = Put(s.v, i - 1, At(s.v, i)), !.n = @ + 1],
              c, tmp, i + 1, i)
  ELSE [s EXCEPT !.v = CopyOnDrop(s.v, tmp, dest)]

RECURSIVE shift_head_loop(_, _, _, _, _)
shift_head_loop(s, c, tmp, i, dest) ==
  IF i < Len(s.v)
  THEN IF Panics(c, s.n)
       THEN [s EXCEPT !.v = CopyOnDrop(s.v, tmp, dest), !.err = "panic"]
       ELSE IF ~is_less(c, At(s.v, i), tmp, s.n)
       THEN [s EXCEPT !.v = CopyOnDrop(s.v, tmp, dest), !.n = @ + 1]
       ELSE shift_head_loop(
              [s EXCEPT !.v = Put(s.v, i - 1, At(s.v, i)), !.n = @ + 1],
              c, tmp, i + 1, i)
  ELSE [s EXCEPT !.v = CopyOnDrop(s.v, tmp, dest)]

shift_head(s, c) ==
  LET len == Len(s.v) IN
  IF len < 2 THEN s
  ELSE IF Panics(c, s.n) THEN Fail(s, "panic")
  ELSE IF ~is_less(c, At(s.v, 1), At(s.v, 0), s.n)
  THEN [s EXCEPT !.n = @ + 1]
  ELSE shift_head_loop(
         [s EXCEPT !.v = Put(s.v, 0, At(s.v, 1)), !.n = @ + 1],
         c, At(s.v, 0), 2, 1)

\* shift_tail runs on the view v[..i + 1], which aliases the front of v.
RECURSIVE insertion_sort_loop(_, _, _)
insertion_sort_loop(s, c, i) ==
  IF s.err # "ok" \/ i >= Len(s.v) THEN s
  ELSE LET t == shift_tail([s EXCEPT !.v = Sub(s.v, 0, i + 1)], c) IN
       insertion_sort_loop([t EXCEPT !.v = Splice(s.v, 0, t.v)], c, i + 1)

\* The loop started one element late.
insertion_sort_from_two(s, c) == insertion_sort_loop(s, c, 2)

insertion_sort(s, c) == insertion_sort_loop(s, c, 1)

----------------------------------------------------------------------------
(* sift_down and const_heapsort, as a computation that stops at each call  *)
(* of is_less: pc says which comparison is pending ("cmp_children":        *)
(* is_less(v[child], v[child + 1]); "cmp_node": is_less(v[node],           *)
(* v[child])) and heap_answer resumes it with the comparator's answer.     *)
(* m is the length of the view sift_down was handed (v or v[..i]).         *)

\* v[i] on the view of length m that sift_down was handed: the index is
\* checked, and an index outside the view aborts.
InView(h, i) == 0 <= i /\ i < h.m

\* The operands of the pending comparison are indexed: h with the abort when
\* one of them lies outside the view.
heap_checked(h) ==
  IF h.pc = "cmp_children" /\ ~(InView(h, h.child) /\ InView(h, h.child + 1))
  THEN [h EXCEPT !.pc = "done", !.err = "panic"]
  ELSE IF h.pc = "cmp_node" /\ ~(InView(h, h.node) /\ InView(h, h.child))
  THEN [h EXCEPT !.pc = "done", !.err = "panic"]
  ELSE h

RECURSIVE sift_loop(_), sift_return(_), pop_loop(_)

\* The greater child chosen without `child + 1 < v.len()`.
sift_loop_unguarded(h) ==
  LET child == 2 * h.node + 1 IN
  IF child >= h.m THEN sift_return(h)
  ELSE heap_checked([h EXCEPT !.pc = "cmp_children", !.child = child])

\* The head of sift_down's loop.
sift_loop(h) ==
  LET child == 2 * h.node + 1 IN
  IF child >= h.m THEN sift_return(h)
  ELSE IF child + 1 < h.m
  THEN heap_checked([h EXCEPT !.pc = "cmp_children", !.child = child])
  ELSE heap_checked([h EXCEPT !.pc = "cmp_node", !.child = child])

\* sift_down has returned into const_heapsort.
sift_return(h) ==
  IF h.phase = "build"
  THEN IF h.i - 1 >= 0
       THEN sift_loop([h EXCEPT !.i = @ - 1, !.node = h.i - 1])
       ELSE IF Len(h.v) = 0
       THEN [h EXCEPT !.pc = "done", !.err = "panic"]
       ELSE pop_loop([h EXCEPT !.phase = "pop", !.i = Len(h.v) - 1])
  ELSE pop_loop([h EXCEPT !.i = @ - 1])

\* The head of the loop that pops the maximal elements.
pop_loop(h) ==
  IF h.i >= 1
  THEN IF ~(InB(h.v, 0) /\ InB(h.v, h.i)) THEN [h EXCEPT !.pc = "done", !.err = "panic"]
       ELSE sift_loop([h EXCEPT !.v = Swap(h.v, 0, h.i), !.m = h.i, !.node = 0])
  ELSE [h EXCEPT !.pc = "done"]

\* let mut i = isize::try_from(v.len() / 2 - 1).ok().unwrap();
\* the unsigned subtraction has no result when v.len() / 2 is 0: a debug
\* build and constant evaluation abort on the overflow, a release build
\* wraps to usize::MAX, which try_from refuses, and unwrap aborts.
heap_first(len) == (len \div 2) - 1

heap_start(w, n) ==
  LET h0 == [v |-> w, n |-> n, err |-> "ok", pc |-> "done", phase |-> "build",
             i |-> 0, m |-> Len(w), node |-> 0, child |-> 0]
  IN IF heap_first(Len(w)) < 0
     THEN [h0 EXCEPT !.err = "panic"]
     ELSE sift_loop([h0 EXCEPT !.i = heap_first(Len(w)),
                               !.node = heap_first(Len(w))])

\* The operands of the pending comparison.
heap_a(h) == IF h.pc = "cmp_children" THEN At(h.v, h.child) ELSE At(h.v, h.node)

heap_b(h) == IF h.pc = "cmp_children" THEN At(h.v, h.child + 1) ELSE At(h.v, h.child)

heap_answer(h, ans) ==
  IF h.pc = "cmp_children"
  THEN heap_checked([h EXCEPT !.child = IF ans THEN @ + 1 ELSE @,
                              !.pc = "cmp_node", !.n = @ + 1])
  ELSE IF ~ans
  THEN sift_return([h EXCEPT !.n = @ + 1])
  ELSE sift_loop([h EXCEPT !.v = Swap(h.v, h.node, h.child),
                           !.node = h.child, !.n = @ + 1])

RECURSIVE heap_run(_, _)
heap_run(h, c) ==
  IF h.pc = "done" THEN h
  ELSE IF Panics(c, h.n) THEN [h EXCEPT !.pc = "done", !.err = "panic"]
  ELSE heap_run(heap_answer(h, is_less(c, heap_a(h), heap_b(h), h.n)), c)

const_heapsort(s, c) ==
  LET h == heap_run(heap_start(s.v, s.n), c) IN
  [v |-> h.v, n |-> h.n, err |-> h.err]

----------------------------------------------------------------------------
(* partition_in_blocks.  The pointers l and r are kept as offsets from the *)
(* start of the view; p holds the view, the call count and the locals.     *)
(* An entry of offsets_l / offsets_r that was never written holds -1.      *)

\* width(l, r) and width2(l, r): an unsigned difference.
width(l, r) == r - l

\* left!() and right!()
LeftPtr(p) == p.l + p.offsets_l[p.start_l]

RightPtr(p) == p.r - p.offsets_r[p.start_r] - 1

\* What p.err becomes when left!() or right!() is evaluated: the index into
\* the offsets array is checked, the entry must have been written, and the
\* element pointer must lie inside the view.
PtrErr(p) ==
  IF ~(p.start_l < BLOCK /\ p.start_r < BLOCK) THEN "panic"
  ELSE IF p.offsets_l[p.start_l] < 0 \/ p.offsets_r[p.start_r] < 0 THEN "uninit"
  ELSE IF ~(InB(p.v, LeftPtr(p)) /\ InB(p.v, RightPtr(p))) THEN "oob"
  ELSE "ok"

\* The block sizes left at BLOCK when fewer elements remain.
AdjustBlocks_skipped(p) == p

\* The is_done branch: adjust the block sizes to cover the remaining gap.
AdjustBlocks(p) ==
  LET w == width(p.l, p.r)
      pending == p.start_l < p.end_l \/ p.start_r < p.end_r
      rem == IF pending THEN w - BLOCK ELSE w
      q == IF p.start_l < p.end_l THEN [p EXCEPT !.block_r = rem]
           ELSE IF p.start_r < p.end_r THEN [p EXCEPT !.block_l = rem]
           ELSE [p EXCEPT !.block_l = rem \div 2, !.block_r = rem - (rem \div 2)]
  IN IF rem < 0 THEN Fail(p, "panic")
     ELSE IF ~(q.block_l <= BLOCK /\ q.block_r <= BLOCK) THEN Fail(q, "assert")
     ELSE IF ~(width(q.l, q.r) = q.block_l + q.block_r) THEN Fail(q, "assert")
     ELSE q

\* One iteration of the tracing of the left block: element i of the block.
trace_l_step(p, c, pivot, i) ==
  IF p.err # "ok" THEN p
  ELSE IF ~(p.end_l < BLOCK) THEN Fail(p, "panic")
  ELSE IF ~InB(p.v, p.l + i) THEN Fail(p, "oob")
  ELSE IF Panics(c, p.n) THEN Fail(p, "panic")
  ELSE [p EXCEPT !.offsets_l[p.end_l] = i % 256,
                 !.end_l = @ + (IF is_less(c, At(p.v, p.l + i), pivot, p.n)
                                THEN 0 ELSE 1),
                 !.n = @ + 1]

\* The iterations lo .. hi - 1 in order: the first half, then the second.
RECURSIVE trace_l_range(_, _, _, _, _)
trace_l_range(p, c, pivot, lo, hi) ==
  IF hi <= lo \/ p.err # "ok" THEN p
  ELSE IF hi = lo + 1 THEN trace_l_step(p, c, pivot, lo)
  ELSE trace_l_range(trace_l_range(p, c, pivot, lo, (lo + hi) \div 2),
                     c, pivot, (lo + hi) \div 2, hi)

\* Trace block_l elements from the left side.
trace_l(p, c, pivot, i) == trace_l_range(p, c, pivot, i, p.block_l)

\* One iteration of the tracing of the right block: element i of the block.
trace_r_step(p, c, pivot, i) ==
  IF p.err # "ok" THEN p
  ELSE IF ~InB(p.v, p.r - 1 - i) THEN Fail(p, "oob")
  ELSE IF ~(p.end_r < BLOCK) THEN Fail(p, "panic")
  ELSE IF Panics(c, p.n) THEN Fail(p, "panic")
  ELSE [p EXCEPT !.offsets_r[p.end_r] = i % 256,
                 !.end_r = @ + (IF is_less(c, At(p.v, p.r - 1 - i), pivot, p.n)
                                THEN 1 ELSE 0),
                 !.n = @ + 1]

RECURSIVE trace_r_range(_, _, _, _, _)
trace_r_range(p, c, pivot, lo, hi) ==
  IF hi <= lo \/ p.err # "ok" THEN p
  ELSE IF hi = lo + 1 THEN trace_r_step(p, c, pivot, lo)
  ELSE trace_r_range(trace_r_range(p, c, pivot, lo, (lo + hi) \div 2),
                     c, pivot, (lo + hi) \div 2, hi)

\* Trace block_r elements from the right side.
trace_r(p, c, pivot, i) == trace_r_range(p, c, pivot, i, p.block_r)

\* The body of `while oi < count` of the cyclic exchange.
exchange_step(p) ==
  IF p.err # "ok" THEN p
  ELSE LET p1 == [p EXCEPT !.start_l = @ + 1] IN
       IF PtrErr(p1) # "ok" THEN Fail(p1, PtrErr(p1))
       ELSE LET p2 == [p1 EXCEPT !.v = Put(p1.v, RightPtr(p1), At(p1.v, LeftPtr(p1))),
                                 !.start_r = @ + 1]
            IN IF PtrErr(p2) # "ok" THEN Fail(p2, PtrErr(p2))
               ELSE [p2 EXCEPT !.v = Put(p2.v, LeftPtr(p2), At(p2.v, RightPtr(p2)))]

\* The iterations oi .. count - 1 in order: the first half, then the second.
RECURSIVE exchange_loop(_, _, _)
exchange_loop(p, oi, count) ==
  IF oi >= count \/ p.err # "ok" THEN p
  ELSE IF oi + 1 = count THEN exchange_step(p)
  ELSE exchange_loop(exchange_loop(p, oi, (oi + count) \div 2),
                     (oi + count) \div 2, count)

\* The out-of-order elements of the two blocks left where they are.
exchange_skipped(p) == p

\* Exchange count out-of-order elements between the two sides by a cyclic
\* permutation.
exchange(p) ==
  LET count == Min2(width(p.start_l, p.end_l), width(p.start_r, p.end_r)) IN
  IF p.end_l < p.start_l \/ p.end_r < p.start_r THEN Fail(p, "overflow")
  ELSE IF count <= 0 THEN p
  ELSE IF PtrErr(p) # "ok" THEN Fail(p, PtrErr(p))
  ELSE LET tmp == At(p.v, LeftPtr(p))
           p1 == exchange_loop(
                   [p EXCEPT !.v = Put(p.v, LeftPtr(p), At(p.v, RightPtr(p)))],
                   1, count)
       IN IF p1.err # "ok" THEN p1
          ELSE [p1 EXCEPT !.v = Put(p1.v, RightPtr(p1), tmp),
                          !.start_l = @ + 1, !.start_r = @ + 1]

\* The steps of one pass of the main loop, each on the locals the step
\* before it left.
blocks_adjust(p) ==
  IF width(p.l, p.r) <= 2 * BLOCK THEN AdjustBlocks(p) ELSE p

blocks_trace_l(p, c, pivot) ==
  IF p.err = "ok" /\ p.start_l = p.end_l
  THEN trace_l([p EXCEPT !.start_l = 0, !.end_l = 0], c, pivot, 0)
  ELSE p

blocks_trace_r(p, c, pivot) ==
  IF p.err = "ok" /\ p.start_r = p.end_r
  THEN trace_r([p EXCEPT !.start_r = 0, !.end_r = 0], c, pivot, 0)
  ELSE p

blocks_exchange(p) == IF p.err = "ok" THEN exchange(p) ELSE p

\* r moved past the right block although offsets of it are still pending.
blocks_advance_r_always(p) ==
  IF p.err = "ok" THEN [p EXCEPT !.r = @ - p.block_r] ELSE p

\* All out-of-order elements of the left block were moved: the next block.
blocks_advance_l(p) ==
  IF p.err = "ok" /\ p.start_l = p.end_l THEN [p EXCEPT !.l = @ + p.block_l] ELSE p

blocks_advance_r(p) ==
  IF p.err = "ok" /\ p.start_r = p.end_r THEN [p EXCEPT !.r = @ - p.block_r] ELSE p

blocks_pass(p, c, pivot) ==
  blocks_advance_r(blocks_advance_l(blocks_exchange(
    blocks_trace_r(blocks_trace_l(blocks_adjust(p), c, pivot), c, pivot))))

\* The main loop; is_done is decided at the head of the pass.
RECURSIVE blocks_loop(_, _, _)
blocks_continue(q, is_done, c, pivot) ==
  IF q.err # "ok" \/ is_done THEN q ELSE blocks_loop(q, c, pivot)

blocks_loop(p, c, pivot) ==
  blocks_continue(blocks_pass(p, c, pivot), width(p.l, p.r) <= 2 * BLOCK, c, pivot)

\* The out-of-order elements of the left block left where they are.
remaining_l_kept(p) == p

\* One iteration of `while start_l < end_l`.
remaining_l_step(p) ==
  IF p.err # "ok" \/ ~(p.start_l < p.end_l) THEN p
  ELSE LET e == p.end_l - 1 IN
       IF p.offsets_l[e] < 0 THEN Fail(p, "uninit")
       ELSE IF ~(InB(p.v, p.l + p.offsets_l[e]) /\ InB(p.v, p.r - 1))
       THEN Fail(p, "oob")
       ELSE [p EXCEPT !.end_l = e,
                      !.v = Swap(p.v, p.l + p.offsets_l[e], p.r - 1),
                      !.r = @ - 1]

\* k iterations in order: the first half, then the second.
RECURSIVE remaining_l_steps(_, _)
remaining_l_steps(p, k) ==
  IF k <= 0 \/ p.err # "ok" THEN p
  ELSE IF k = 1 THEN remaining_l_step(p)
  ELSE remaining_l_steps(remaining_l_steps(p, k \div 2), k - (k \div 2))

\* The left block remains: move its out-of-order elements to the far right.
\* Each iteration takes one offset, so there are end_l - start_l of them.
remaining_l(p) == remaining_l_steps(p, p.end_l - p.start_l)

\* One iteration of `while start_r < end_r`.
remaining_r_step(p) ==
  IF p.err # "ok" \/ ~(p.start_r < p.end_r) THEN p
  ELSE LET e == p.end_r - 1 IN
       IF p.offsets_r[e] < 0 THEN Fail(p, "uninit")
       ELSE IF ~(InB(p.v, p.l) /\ InB(p.v, p.r - p.offsets_r[e] - 1))
       THEN Fail(p, "oob")
       ELSE [p EXCEPT !.end_r = e,
                      !.v = Swap(p.v, p.l, p.r - p.offsets_r[e] - 1),
                      !.l = @ + 1]

RECURSIVE remaining_r_steps(_, _)
remaining_r_steps(p, k) ==
  IF k <= 0 \/ p.err # "ok" THEN p
  ELSE IF k = 1 THEN remaining_r_step(p)
  ELSE remaining_r_steps(remaining_r_steps(p, k \div 2), k - (k \div 2))

\* The right block remains: move its out-of-order elements to the far left.
remaining_r(p) == remaining_r_steps(p, p.end_r - p.start_r)

blocks_init(s) ==
  [v |-> s.v, n |-> s.n, err |-> s.err,
   l |-> 0, block_l |-> BLOCK, start_l |-> 0, end_l |-> 0,
   offsets_l |-> [k \in 0..(BLOCK - 1) |-> -1],
   r |-> Len(s.v), block_r |-> BLOCK, start_r |-> 0, end_r |-> 0,
   offsets_r |-> [k \in 0..(BLOCK - 1) |-> -1]]

blocks_result(p, res) == [v |-> p.v, n |-> p.n, err |-> p.err, ret |-> res]

blocks_result_r(p) == blocks_result(p, width(0, p.r))

blocks_result_l(p) == blocks_result(p, width(0, p.l))

\* After the main loop: at most one block still holds out-of-order elements.
blocks_finish(p) ==
  IF p.err # "ok" THEN blocks_result(p, 0)
  ELSE IF p.start_l < p.end_l THEN blocks_result_r(remaining_l(p))
  ELSE IF p.start_r < p.end_r THEN blocks_result_l(remaining_r(p))
  ELSE blocks_result_l(p)

\* Returns the computation and, in ret, the number of elements smaller than
\* pivot.
partition_in_blocks(s, pivot, c) ==
  blocks_finish(blocks_loop(blocks_init(s), c, pivot))

----------------------------------------------------------------------------
(* partition and partition_equal.  Both swap the pivot to index 0, split   *)
(* the view into v[..1] and v[1..], read the pivot into tmp under a         *)
(* CopyOnDrop guard whose dest is index 0, and work on v[1..].              *)

\* One evaluation of the condition of
\* while l < r && is_less(v[l], pivot) { l += 1 }
\* and, when it holds, of the body; stop says the loop was left.
scan_l_step(a, c, pivot, r) ==
  IF a.stop \/ ~(a.l < r) \/ a.s.err # "ok" THEN [a EXCEPT !.stop = TRUE]
  ELSE IF ~InB(a.s.v, a.l) THEN [a EXCEPT !.s = Fail(a.s, "oob"), !.stop = TRUE]
  ELSE IF Panics(c, a.s.n) THEN [a EXCEPT !.s = Fail(a.s, "panic"), !.stop = TRUE]
  ELSE IF is_less(c, At(a.s.v, a.l), pivot, a.s.n)
  THEN [a EXCEPT !.s.n = @ + 1, !.l = @ + 1]
  ELSE [a EXCEPT !.s.n = @ + 1, !.stop = TRUE]

\* k evaluations in order: the first half, then the second.
RECURSIVE scan_l_steps(_, _, _, _, _)
scan_l_steps(a, c, pivot, r, k) ==
  IF k <= 0 \/ a.stop THEN a
  ELSE IF k = 1 THEN scan_l_step(a, c, pivot, r)
  ELSE scan_l_steps(scan_l_steps(a, c, pivot, r, k \div 2),
                    c, pivot, r, k - (k \div 2))

scan_l_result(a) == [s |-> a.s, l |-> a.l]

\* while l < r && is_less(v[l], pivot) { l += 1 }
\* The body runs at most r - l times.
scan_l(s, c, pivot, l, r) ==
  scan_l_result(
    scan_l_steps([s |-> s, l |-> l, stop |-> FALSE], c, pivot, r, r - l))

\* One evaluation of the condition of
\* while l < r && !is_less(v[r - 1], pivot) { r -= 1 }
\* and, when it holds, of the body.
scan_r_step(a, c, pivot, l) ==
  IF a.stop \/ ~(l < a.r) \/ a.s.err # "ok" THEN [a EXCEPT !.stop = TRUE]
  ELSE IF ~InB(a.s.v, a.r - 1) THEN [a EXCEPT !.s = Fail(a.s, "oob"), !.stop = TRUE]
  ELSE IF Panics(c, a.s.n) THEN [a EXCEPT !.s = Fail(a.s, "panic"), !.stop = TRUE]
  ELSE IF ~is_less(c, At(a.s.v, a.r - 1), pivot, a.s.n)
  THEN [a EXCEPT !.s.n = @ + 1, !.r = @ - 1]
  ELSE [a EXCEPT !.s.n = @ + 1, !.stop = TRUE]

RECURSIVE scan_r_steps(_, _, _, _, _)
scan_r_steps(a, c, pivot, l, k) ==
  IF k <= 0 \/ a.stop THEN a
  ELSE IF k = 1 THEN scan_r_step(a, c, pivot, l)
  ELSE scan_r_steps(scan_r_steps(a, c, pivot, l, k \div 2),
                    c, pivot, l, k - (k \div 2))

scan_r_result(a) == [s |-> a.s, r |-> a.r]

\* The scan from the right left out.
scan_r_left_out(s, c, pivot, l, r) == [s |-> s, r |-> r]

\* while l < r && !is_less(v[r - 1], pivot) { r -= 1 }
scan_r(s, c, pivot, l, r) ==
  scan_r_result(
    scan_r_steps([s |-> s, r |-> r, stop |-> FALSE], c, pivot, l, r - l))

\* The second scan, from where the first one stopped.
scan_lr(a, c, pivot, r) == scan_r(a.s, c, pivot, a.l, r) @@ [l |-> a.l]

\* The pivot left at index 0 instead of being swapped between the partitions.
partition_finish_unswapped(w0, sc, inner) ==
  [v |-> CopyOnDrop(Splice(w0, 1, Splice(sc.s.v, sc.l, inner.v)), At(w0, 0), 0),
   n |-> inner.n, err |-> inner.err, mid |-> sc.l + inner.ret,
   was_partitioned |-> sc.l >= sc.r]

\* The end of partition: inner is what partition_in_blocks returned for
\* rest[l..r], w0 the view after the pivot was swapped to index 0, sc the
\* scans' result.  _pivot_guard goes out of scope, then the pivot is
\* swapped between the two partitions.
partition_finish(w0, sc, inner) ==
  LET mid == sc.l + inner.ret
      w1 == CopyOnDrop(Splice(w0, 1, Splice(sc.s.v, sc.l, inner.v)), At(w0, 0), 0)
      out == [v |-> w1, n |-> inner.n, err |-> inner.err, mid |-> mid,
              was_partitioned |-> sc.l >= sc.r]
  IN IF inner.err # "ok" THEN out
     ELSE IF ~InB(w1, mid) THEN [out EXCEPT !.err = "panic"]
     ELSE [out EXCEPT !.v = Swap(w1, 0, mid)]

partition_blocks(w0, c, sc) ==
  partition_finish(w0, sc,
    IF sc.s.err # "ok"
    THEN [v |-> <<>>, n |-> sc.s.n, err |-> sc.s.err, ret |-> 0]
    ELSE partition_in_blocks([sc.s EXCEPT !.v = Sub(sc.s.v, sc.l, sc.r)],
                             At(w0, 0), c))

partition_swapped(w0, n, c) ==
  partition_blocks(w0, c,
    scan_lr(scan_l(St(Sub(w0, 1, Len(w0)), n), c, At(w0, 0), 0, Len(w0) - 1),
            c, At(w0, 0), Len(w0) - 1))

\* Returns the computation with mid and was_partitioned.
partition(s, pivot, c) ==
  IF ~(InB(s.v, 0) /\ InB(s.v, pivot))
  THEN [v |-> s.v, n |-> s.n, err |-> "panic", mid |-> 0, was_partitioned |-> FALSE]
  ELSE partition_swapped(Swap(s.v, 0, pivot), s.n, c)

\* One evaluation of the condition of
\* while l < r && !is_less(pivot, v[l]) { l += 1 }
\* and, when it holds, of the body; stop says the loop was left.
eq_scan_l_step(a, c, pivot, r) ==
  IF a.stop \/ ~(a.l < r) \/ a.s.err # "ok" THEN [a EXCEPT !.stop = TRUE]
  ELSE IF ~InB(a.s.v, a.l) THEN [a EXCEPT !.s = Fail(a.s, "oob"), !.stop = TRUE]
  ELSE IF Panics(c, a.s.n) THEN [a EXCEPT !.s = Fail(a.s, "panic"), !.stop = TRUE]
  ELSE IF ~is_less(c, pivot, At(a.s.v, a.l), a.s.n)
  THEN [a EXCEPT !.s.n = @ + 1, !.l = @ + 1]
  ELSE [a EXCEPT !.s.n = @ + 1, !.stop = TRUE]

\* k evaluations in order: the first half, then the second.
RECURSIVE eq_scan_l_steps(_, _, _, _, _)
eq_scan_l_steps(a, c, pivot, r, k) ==
  IF k <= 0 \/ a.stop THEN a
  ELSE IF k = 1 THEN eq_scan_l_step(a, c, pivot, r)
  ELSE eq_scan_l_steps(eq_scan_l_steps(a, c, pivot, r, k \div 2),
                    c, pivot, r, k - (k \div 2))

eq_scan_l_result(a) == [s |-> a.s, l |-> a.l]

\* while l < r && !is_less(pivot, v[l]) { l += 1 }
\* The body runs at most r - l times.
eq_scan_l(s, c, pivot, l, r) ==
  eq_scan_l_result(
    eq_scan_l_steps([s |-> s, l |-> l, stop |-> FALSE], c, pivot, r, r - l))

\* One evaluation of the condition of
\* while l < r && is_less(pivot, v[r - 1]) { r -= 1 }
\* and, when it holds, of the body.
eq_scan_r_step(a, c, pivot, l) ==
  IF a.stop \/ ~(l < a.r) \/ a.s.err # "ok" THEN [a EXCEPT !.stop = TRUE]
  ELSE IF ~InB(a.s.v, a.r - 1) THEN [a EXCEPT !.s = Fail(a.s, "oob"), !.stop = TRUE]
  ELSE IF Panics(c, a.s.n) THEN [a EXCEPT !.s = Fail(a.s, "panic"), !.stop = TRUE]
  ELSE IF is_less(c, pivot, At(a.s.v, a.r - 1), a.s.n)
  THEN [a EXCEPT !.s.n = @ + 1, !.r = @ - 1]
  ELSE [a EXCEPT !.s.n = @ + 1, !.stop = TRUE]

RECURSIVE eq_scan_r_steps(_, _, _, _, _)
eq_scan_r_steps(a, c, pivot, l, k) ==
  IF k <= 0 \/ a.stop THEN a
  ELSE IF k = 1 THEN eq_scan_r_step(a, c, pivot, l)
  ELSE eq_scan_r_steps(eq_scan_r_steps(a, c, pivot, l, k \div 2),
                    c, pivot, l, k - (k \div 2))

eq_scan_r_result(a) == [s |-> a.s, r |-> a.r]

\* while l < r && is_less(pivot, v[r - 1]) { r -= 1 }
eq_scan_r(s, c, pivot, l, r) ==
  eq_scan_r_result(
    eq_scan_r_steps([s |-> s, r |-> r, stop |-> FALSE], c, pivot, l, r - l))

eq_scan_lr(a, c, pivot, r) == eq_scan_r(a.s, c, pivot, a.l, r) @@ [l |-> a.l]

\* The pair found passed over without being swapped.
eq_swap_skipped(sc) ==
  IF sc.s.err # "ok" \/ sc.l >= sc.r
  THEN [s |-> sc.s, l |-> sc.l, r |-> sc.r, stop |-> TRUE]
  ELSE [s |-> sc.s, l |-> sc.l + 1, r |-> sc.r - 1, stop |-> FALSE]

\* After the two scans of one iteration of partition_equal's loop: break
\* when l >= r, else swap the pair found and go on.
eq_swap(sc) ==
  IF sc.s.err # "ok" \/ sc.l >= sc.r
  THEN [s |-> sc.s, l |-> sc.l, r |-> sc.r, stop |-> TRUE]
  ELSE IF ~(InB(sc.s.v, sc.l) /\ InB(sc.s.v, sc.r - 1))
  THEN [s |-> Fail(sc.s, "oob"), l |-> sc.l, r |-> sc.r, stop |-> TRUE]
  ELSE [s |-> [sc.s EXCEPT !.v = Swap(sc.s.v, sc.l, sc.r - 1)],
        l |-> sc.l + 1, r |-> sc.r - 1, stop |-> FALSE]

\* One iteration of partition_equal's loop.
eq_step(a, c, pivot) ==
  IF a.stop THEN a
  ELSE eq_swap(eq_scan_lr(eq_scan_l(a.s, c, pivot, a.l, a.r), c, pivot, a.r))

\* k iterations in order: the first half, then the second.
RECURSIVE eq_steps(_, _, _, _)
eq_steps(a, c, pivot, k) ==
  IF k <= 0 \/ a.stop THEN a
  ELSE IF k = 1 THEN eq_step(a, c, pivot)
  ELSE eq_steps(eq_steps(a, c, pivot, k \div 2), c, pivot, k - (k \div 2))

\* The loop of partition_equal; returns the computation and l.  Every
\* iteration but the last swaps a pair and narrows l..r by two, so there
\* are at most (r - l) / 2 + 1 of them.
eq_loop(s, c, pivot, l, r) ==
  eq_steps([s |-> s, l |-> l, r |-> r, stop |-> FALSE], c, pivot,
           ((r - l) \div 2) + 1)

\* The guard's dest taken to be the slot behind the equal elements.
partition_equal_finish_misplaced(w0, e) ==
  [v |-> CopyOnDrop(Splice(w0, 1, e.s.v), At(w0, 0), Min2(e.l + 1, Len(w0) - 1)),
   n |-> e.s.n, err |-> e.s.err, mid |-> e.l + 1]

\* _pivot_guard goes out of scope; mid is l + 1.
partition_equal_finish(w0, e) ==
  [v |-> CopyOnDrop(Splice(w0, 1, e.s.v), At(w0, 0), 0), n |-> e.s.n,
   err |-> e.s.err, mid |-> e.l + 1]

partition_equal_swapped(w0, n, c) ==
  partition_equal_finish(w0,
    eq_loop(St(Sub(w0, 1, Len(w0)), n), c, At(w0, 0), 0, Len(w0) - 1))

\* Returns the computation with mid, the number of elements equal to the
\* pivot.
partition_equal(s, pivot, c) ==
  IF ~(InB(s.v, 0) /\ InB(s.v, pivot))
  THEN [v |-> s.v, n |-> s.n, err |-> "panic", mid |-> 0]
  ELSE partition_equal_swapped(Swap(s.v, 0, pivot), s.n, c)

----------------------------------------------------------------------------
(* break_patterns.                                                          *)

\* A u32 or u64 is the function from bit positions (0: the lowest) to bits.
Bits(w) == 0..(w - 1)

RECURSIVE ToBits(_, _, _)
\* The w-bit unsigned integer of the natural n (n as u32 for w = 32).
ToBits(n, w, k) ==
  IF k >= w THEN [j \in Bits(w) |-> 0]
  ELSE [ToBits(n \div 2, w, k + 1) EXCEPT ![k] = n % 2]

BitXor(x, y) == [j \in DOMAIN x |-> (x[j] + y[j]) % 2]

\* x << k and x >> k on a w-bit integer: the bits shifted out are lost.
Shl(x, k, w) == [j \in Bits(w) |-> IF j >= k THEN x[j - k] ELSE 0]

Shr(x, k, w) == [j \in Bits(w) |-> IF j + k < w THEN x[j + k] ELSE 0]

\* One round of gen_u32 on the u32 random.
gen_u32(random) ==
  LET r1 == BitXor(random, Shl(random, 13, 32))
      r2 == BitXor(r1, Shr(r1, 17, 32))
  IN BitXor(r2, Shl(r2, 5, 32))

\* gen_usize: the new random and the usize drawn (USIZE_BITS wide).
gen_usize(random) ==
  IF USIZE_BITS <= 32
  THEN [random |-> gen_u32(random), val |-> gen_u32(random)]
  ELSE LET hi == gen_u32(random)
           lo == gen_u32(hi)
       IN [random |-> lo,
           val |-> [j \in Bits(USIZE_BITS) |-> IF j < 32 THEN lo[j] ELSE hi[j - 32]]]

\* x & (modulus - 1) for a power of two modulus = 2^k: the low k bits.
RECURSIVE LowBits(_, _, _)
LowBits(x, modulus, j) ==
  IF modulus <= 1 THEN 0
  ELSE x[j] + 2 * LowBits(x, modulus \div 2, j + 1)

RECURSIVE next_power_of_two_from(_, _)
next_power_of_two_from(n, k) ==
  IF k >= n THEN k ELSE next_power_of_two_from(n, 2 * k)

next_power_of_two(n) == next_power_of_two_from(n, 1)

\* The second operand of the i-th swap; modulus is a power of two, so the
\* mask is a remainder.
RECURSIVE break_loop(_, _, _, _)
break_loop(s, random, pos, i) ==
  IF i >= 3 \/ s.err # "ok" THEN s
  ELSE LET len == Len(s.v)
           g == gen_usize(random)
           masked == LowBits(g.val, next_power_of_two(len), 0)
           other == IF masked >= len THEN masked - len ELSE masked
       IN IF ~(InB(s.v, pos - 1 + i) /\ InB(s.v, other))
          THEN Fail(s, "panic")
          ELSE break_loop([s EXCEPT !.v = Swap(s.v, pos - 1 + i, other)],
                          g.random, pos, i + 1)

\* pos taken as len / 4.
break_patterns_at_quarter(s) ==
  LET len == Len(s.v) IN
  IF len >= 8
  THEN break_loop(s, ToBits(len, 32, 0), len \div 4, 0)
  ELSE s

break_patterns(s) ==
  LET len == Len(s.v) IN
  IF len >= 8
  THEN break_loop(s, ToBits(len, 32, 0), (len \div 4) * 2, 0)
  ELSE s

----------------------------------------------------------------------------
(* choose_pivot.  q holds the call count, the swap count and the three     *)
(* indices a sort3 works on.                                                *)

\* sort2 on the indices x and y.
sort2(w, c, q, x, y) ==
  IF q.err # "ok" THEN q
  ELSE IF ~(InB(w, q[x]) /\ InB(w, q[y])) THEN [q EXCEPT !.err = "oob"]
  ELSE IF Panics(c, q.n) THEN [q EXCEPT !.err = "panic"]
  ELSE IF is_less(c, At(w, q[y]), At(w, q[x]), q.n)
  THEN [q EXCEPT ![x] = q[y], ![y] = q[x], !.swaps = @ + 1, !.n = @ + 1]
  ELSE [q EXCEPT !.n = @ + 1]

\* The last of the three sort2 calls left out.
sort3_twice(w, c, q, x, y, z) ==
  sort2(w, c, sort2(w, c, q, x, y), y, z)

sort3(w, c, q, x, y, z) ==
  sort2(w, c, sort2(w, c, sort2(w, c, q, x, y), y, z), x, y)

\* sort_adjacent on index x: sort3 on the temporaries tmp - 1 and tmp + 1
\* around it, which are dropped afterwards.
sort_adjacent(w, c, q, x) ==
  LET tmp == q[x]
      q1 == sort3(w, c, q @@ [lo |-> tmp - 1, hi |-> tmp + 1], "lo", x, "hi")
  IN [f \in DOMAIN q |-> q1[f]]

\* b taken as len / 2.
choose_start_half(len, n) ==
  [n |-> n, err |-> "ok", swaps |-> 0,
   a |-> (len \div 4) * 1, b |-> len \div 2, c |-> (len \div 4) * 3]

\* The indices before any comparison.
choose_start(len, n) ==
  [n |-> n, err |-> "ok", swaps |-> 0,
   a |-> (len \div 4) * 1, b |-> (len \div 4) * 2, c |-> (len \div 4) * 3]

\* Find medians in the neighborhoods of a, b and c.
choose_medians(w, c, q) ==
  IF Len(w) >= 8 /\ Len(w) >= SHORTEST_MEDIAN_OF_MEDIANS
  THEN sort_adjacent(w, c, sort_adjacent(w, c, sort_adjacent(w, c, q, "a"), "b"), "c")
  ELSE q

\* Find the median among a, b and c.
choose_median(w, c, q) ==
  IF Len(w) >= 8 THEN sort3(w, c, q, "a", "b", "c") ELSE q

\* The index returned after the reversal is b, not its mirror image.
choose_result_unmirrored(w, q) ==
  IF q.err # "ok"
  THEN [v |-> w, n |-> q.n, err |-> q.err, pivot |-> q.b, likely_sorted |-> FALSE]
  ELSE IF q.swaps < MAX_SWAPS
  THEN [v |-> w, n |-> q.n, err |-> "ok", pivot |-> q.b,
        likely_sorted |-> q.swaps = 0]
  ELSE [v |-> Reverse(w), n |-> q.n, err |-> "ok", pivot |-> q.b,
        likely_sorted |-> TRUE]

\* `if swaps < MAX_SWAPS`, on the indices and the swap count q.
choose_result(w, q) ==
  IF q.err # "ok"
  THEN [v |-> w, n |-> q.n, err |-> q.err, pivot |-> q.b, likely_sorted |-> FALSE]
  ELSE IF q.swaps < MAX_SWAPS
  THEN [v |-> w, n |-> q.n, err |-> "ok", pivot |-> q.b,
        likely_sorted |-> q.swaps = 0]
  ELSE [v |-> Reverse(w), n |-> q.n, err |-> "ok", pivot |-> Len(w) - 1 - q.b,
        likely_sorted |-> TRUE]

\* Returns the computation with pivot and likely_sorted.
choose_pivot(s, c) ==
  choose_result(s.v,
    choose_median(s.v, c, choose_medians(s.v, c, choose_start(Len(s.v), s.n))))

----------------------------------------------------------------------------
(* partial_insertion_sort.  Returns the computation and, in ret, whether   *)
(* the view ended up sorted.                                                *)

\* while i < len && !is_less(v[i], v[i - 1]) { i += 1 }
RECURSIVE find_pair(_, _, _)
find_pair(s, c, i) ==
  IF ~(i < Len(s.v)) THEN [s |-> s, i |-> i]
  ELSE IF ~(InB(s.v, i) /\ InB(s.v, i - 1)) THEN [s |-> Fail(s, "oob"), i |-> i]
  ELSE IF Panics(c, s.n) THEN [s |-> Fail(s, "panic"), i |-> i]
  ELSE IF ~is_less(c, At(s.v, i), At(s.v, i - 1), s.n)
  THEN find_pair([s EXCEPT !.n = @ + 1], c, i + 1)
  ELSE [s |-> [s EXCEPT !.n = @ + 1], i |-> i]

RECURSIVE partial_loop(_, _, _, _)

\* shift_head(&mut v[i..]) has run on h; w2 is the slice it aliases.
partial_shifted_head(w2, h, c, i, oi) ==
  IF h.err # "ok" THEN [h EXCEPT !.v = Splice(w2, i, h.v)] @@ [ret |-> FALSE]
  ELSE partial_loop([h EXCEPT !.v = Splice(w2, i, h.v)], c, i, oi + 1)

\* shift_tail(&mut v[..i]) has run on t; w1 is the slice it aliases.
partial_shifted_tail(w1, t, c, i, oi) ==
  IF t.err # "ok" THEN [t EXCEPT !.v = Splice(w1, 0, t.v)] @@ [ret |-> FALSE]
  ELSE partial_shifted_head(Splice(w1, 0, t.v),
         shift_head([t EXCEPT !.v = Sub(Splice(w1, 0, t.v), i, Len(w1))], c),
         c, i, oi)

\* Short views are shifted too.
partial_found_any_length(f, c, oi) ==
  IF f.s.err # "ok" THEN f.s @@ [ret |-> FALSE]
  ELSE IF f.i = Len(f.s.v) THEN f.s @@ [ret |-> TRUE]
  ELSE partial_shifted_tail(Swap(f.s.v, f.i - 1, f.i),
         shift_tail([f.s EXCEPT !.v = Sub(Swap(f.s.v, f.i - 1, f.i), 0, f.i)], c),
         c, f.i, oi)

\* The next out-of-order pair was looked for: f.i is where the scan stopped.
partial_found(f, c, oi) ==
  IF f.s.err # "ok" THEN f.s @@ [ret |-> FALSE]
  ELSE IF f.i = Len(f.s.v) THEN f.s @@ [ret |-> TRUE]
  ELSE IF Len(f.s.v) < SHORTEST_SHIFTING THEN f.s @@ [ret |-> FALSE]
  ELSE partial_shifted_tail(Swap(f.s.v, f.i - 1, f.i),
         shift_tail([f.s EXCEPT !.v = Sub(Swap(f.s.v, f.i - 1, f.i), 0, f.i)], c),
         c, f.i, oi)

\* true returned when the steps are used up.
partial_loop_true(s, c, i, oi) ==
  IF ~(oi < MAX_STEPS) THEN s @@ [ret |-> TRUE]
  ELSE partial_found(find_pair(s, c, i), c, oi)

partial_loop(s, c, i, oi) ==
  IF ~(oi < MAX_STEPS) THEN s @@ [ret |-> FALSE]
  ELSE partial_found(find_pair(s, c, i), c, oi)

partial_insertion_sort(s, c) == partial_loop(s, c, 1, 0)

----------------------------------------------------------------------------
(* recurse.  A frame is one activation: its view is the index range        *)
(* lo..hi-1 of the root slice, pred is <<>> (None) or <<k>> (a reference   *)
(* to the root's element k), limit the imbalanced partitions still          *)
(* allowed.  recurse_iter is one iteration of the loop: it returns (into    *)
(* the caller's loop), continues, or calls recurse on one side and          *)
(* continues with the other once that call has returned.                    *)

Frame(lo, hi, pred, limit) ==
  [lo |-> lo, hi |-> hi, pred |-> pred, limit |-> limit,
   was_balanced |-> TRUE, was_partitioned |-> TRUE]

Outcome(root, f, s, kind, cont, callee, via) ==
  [v |-> Splice(root, f.lo, s.v), n |-> s.n, err |-> s.err, kind |-> kind,
   cont |-> cont, callee |-> callee, via |-> via]

\* The loop continued without `v = &mut v[mid..]`.
recurse_equal_whole(root, f, limit, len, e) ==
  Outcome(root, f, e, "continue", [f EXCEPT !.limit = limit], f, "partition_equal")

\* partition_equal has returned e: continue with v[mid..].
recurse_equal(root, f, limit, len, e) ==
  IF e.err = "ok" /\ e.mid > len
  THEN Outcome(root, f, Fail(e, "panic"), "return", f, f, "partition_equal")
  ELSE Outcome(root, f, e, "continue",
               [f EXCEPT !.lo = f.lo + e.mid, !.limit = limit], f, "partition_equal")

\* The recursive call made on the longer side.
recurse_split_longer(root, f, limit, len, g) ==
  LET wb == Min2(g.mid, len - g.mid) >= len \div 8
      piv == f.lo + g.mid
  IN IF g.err # "ok" THEN Outcome(root, f, g, "return", f, f, "partition")
     ELSE IF g.mid >= (len - g.mid - 1)
     THEN Outcome(root, f, g, "recurse",
            [f EXCEPT !.lo = piv + 1, !.pred = <<piv>>, !.limit = limit,
                      !.was_balanced = wb, !.was_partitioned = g.was_partitioned],
            Frame(f.lo, piv, f.pred, limit), "partition")
     ELSE Outcome(root, f, g, "recurse",
            [f EXCEPT !.hi = piv, !.limit = limit,
                      !.was_balanced = wb, !.was_partitioned = g.was_partitioned],
            Frame(piv + 1, f.hi, <<piv>>, limit), "partition")

\* The right side split off at mid instead of mid + 1: it keeps the pivot.
recurse_split_overlapping(root, f, limit, len, g) ==
  LET wb == Min2(g.mid, len - g.mid) >= len \div 8
      piv == f.lo + g.mid
  IN IF g.err # "ok" THEN Outcome(root, f, g, "return", f, f, "partition")
     ELSE IF g.mid < (len - g.mid - 1)
     THEN Outcome(root, f, g, "recurse",
            [f EXCEPT !.lo = piv, !.pred = <<piv>>, !.limit = limit,
                      !.was_balanced = wb, !.was_partitioned = g.was_partitioned],
            Frame(f.lo, piv, f.pred, limit), "partition")
     ELSE Outcome(root, f, g, "recurse",
            [f EXCEPT !.hi = piv, !.limit = limit,
                      !.was_balanced = wb, !.was_partitioned = g.was_partitioned],
            Frame(piv, f.hi, <<piv>>, limit), "partition")

\* partition has returned g: split at mid into left, pivot and right,
\* recurse into the shorter side and continue with the longer.
recurse_split(root, f, limit, len, g) ==
  LET wb == Min2(g.mid, len - g.mid) >= len \div 8
      piv == f.lo + g.mid
  IN IF g.err # "ok" THEN Outcome(root, f, g, "return", f, f, "partition")
     ELSE IF g.mid < (len - g.mid - 1)
     THEN Outcome(root, f, g, "recurse",
            [f EXCEPT !.lo = piv + 1, !.pred = <<piv>>, !.limit = limit,
                      !.was_balanced = wb, !.was_partitioned = g.was_partitioned],
            Frame(f.lo, piv, f.pred, limit), "partition")
     ELSE Outcome(root, f, g, "recurse",
            [f EXCEPT !.hi = piv, !.limit = limit,
                      !.was_balanced = wb, !.was_partitioned = g.was_partitioned],
            Frame(piv + 1, f.hi, <<piv>>, limit), "partition")

\* partition_equal called whenever there is a predecessor, whatever
\* is_less(p, &v[pivot]) answers.
recurse_partition_unchecked(root, f, c, s, pivot, limit) ==
  IF f.pred = <<>> THEN recurse_split(root, f, limit, Len(s.v), partition(s, pivot, c))
  ELSE IF ~InB(s.v, pivot) \/ Panics(c, s.n)
  THEN Outcome(root, f, Fail(s, "panic"), "return", f, f, "pred")
  ELSE recurse_equal(root, f, limit, Len(s.v),
                     partition_equal([s EXCEPT !.n = @ + 1], pivot, c))

\* From `if let Some(p) = pred` on: s is the computation after the pivot was
\* chosen, limit the budget after this iteration's decrement.
recurse_partition(root, f, c, s, pivot, limit) ==
  IF f.pred = <<>> THEN recurse_split(root, f, limit, Len(s.v), partition(s, pivot, c))
  ELSE IF ~InB(s.v, pivot) \/ Panics(c, s.n)
  THEN Outcome(root, f, Fail(s, "panic"), "return", f, f, "pred")
  ELSE IF ~is_less(c, At(root, f.pred[1]), At(s.v, pivot), s.n)
  THEN recurse_equal(root, f, limit, Len(s.v),
                     partition_equal([s EXCEPT !.n = @ + 1], pivot, c))
  ELSE recurse_split(root, f, limit, Len(s.v),
                     partition([s EXCEPT !.n = @ + 1], pivot, c))

\* partial_insertion_sort was tried (or not): pis.ret says the view is sorted.
recurse_tried(root, f, c, pivot, limit, pis) ==
  IF pis.err # "ok" \/ pis.ret
  THEN Outcome(root, f, pis, "return", f, f,
               IF pis.ret THEN "partial_insertion_sort" ELSE "aborted")
  ELSE recurse_partition(root, f, c, [v |-> pis.v, n |-> pis.n, err |-> "ok"],
                         pivot, limit)

\* `if was_balanced && was_partitioned && likely_sorted`:
\* partial_insertion_sort is tried.
recurse_try(f, c, cp) ==
  IF cp.err = "ok" /\ f.was_balanced /\ f.was_partitioned /\ cp.likely_sorted
  THEN partial_insertion_sort([v |-> cp.v, n |-> cp.n, err |-> "ok"], c)
  ELSE [v |-> cp.v, n |-> cp.n, err |-> cp.err, ret |-> FALSE]

\* The pivot was chosen: cp is what choose_pivot returned.
recurse_chosen(root, f, c, cp, limit) ==
  recurse_tried(root, f, c, cp.pivot, limit, recurse_try(f, c, cp))

\* `if !was_balanced { break_patterns(v); limit -= 1; }`
recurse_break(f, s) == IF ~f.was_balanced THEN break_patterns(s) ELSE s

\* The budget decremented in every iteration.
recurse_limit_always(f) == f.limit - 1

recurse_limit(f) == IF ~f.was_balanced THEN f.limit - 1 ELSE f.limit

recurse_choose(s, c) ==
  IF s.err = "ok" THEN choose_pivot(s, c)
  ELSE s @@ [pivot |-> 0, likely_sorted |-> FALSE]

\* The loop without `if limit == 0 { const_heapsort(v, is_less); return; }`.
recurse_view_no_fallback(root, f, c, s) ==
  IF Len(s.v) <= MAX_INSERTION
  THEN Outcome(root, f, insertion_sort(s, c), "return", f, f, "insertion_sort")
  ELSE recurse_chosen(root, f, c, recurse_choose(recurse_break(f, s), c),
                      recurse_limit(f))

\* One iteration of the loop on the view s.v = root[f.lo..f.hi].
recurse_view(root, f, c, s) ==
  IF Len(s.v) <= MAX_INSERTION
  THEN Outcome(root, f, insertion_sort(s, c), "return", f, f, "insertion_sort")
  ELSE IF f.limit = 0
  THEN Outcome(root, f, const_heapsort(s, c), "return", f, f, "heapsort")
  ELSE recurse_chosen(root, f, c, recurse_choose(recurse_break(f, s), c),
                      recurse_limit(f))

recurse_iter(root, f, c, n) == recurse_view(root, f, c, St(Sub(root, f.lo, f.hi), n))

\* The view and the pivot index as they are at `if let Some(p) = pred` in
\* the iteration that recurse_iter makes: after break_patterns, choose_pivot
\* and partial_insertion_sort.
recurse_pred_check(f, c, cp) == [v |-> recurse_try(f, c, cp).v, pivot |-> cp.pivot]

recurse_at_pred(root, f, c, n) ==
  recurse_pred_check(f, c,
    recurse_choose(recurse_break(f, St(Sub(root, f.lo, f.hi), n)), c))

\* n.leading_zeros() of a usize: the bits above the highest set one.
RECURSIVE BitLength(_)
BitLength(n) == IF n = 0 THEN 0 ELSE 1 + BitLength(n \div 2)

\* One zero bit too many counted.
leading_zeros_one_more(n) == USIZE_BITS - BitLength(n \div 2)

leading_zeros(n) == USIZE_BITS - BitLength(n)

\* const_quicksort's first frame.
const_quicksort_frame(w) == Frame(0, Len(w), <<>>, USIZE_BITS - leading_zeros(Len(w)))

----------------------------------------------------------------------------
(* Inputs. *)

Vals == 0..MaxVal

ShortInputs == UNION {[1..k -> Vals] : k \in 0..MaxLen}

\* Long slices follow a pattern: element i is (i * mul) % md, which is
\* ascending (mul = 1, md > len), descending (mul = md - 1), constant
\* (mul = 0), or a mix with many or few duplicates.
Pattern(len, mul, md) == [k \in 1..len |-> ((k - 1) * mul) % md]

Moduli == {2, 3, 7, 29}

Multipliers == {0, 1, 5, 12, 28}

LongInputs ==
  {Pattern(len, mul, md) :
     len \in (MAX_INSERTION + 1)..(MAX_INSERTION + BigExtra),
     mul \in Multipliers, md \in Moduli}

\* Long slices with a few copies of the smallest element, at index 0 and
\* where choose_pivot looks first (a = len / 4 and b = 2 * a, and the index
\* after each): the first pivot is the smallest element, and it is chosen
\* again in the view that follows.
DuplicateInputs ==
  {[k \in 1..len |->
      IF (k - 1) \in {0, len \div 4, (len \div 4) + 1,
                      2 * (len \div 4), 2 * (len \div 4) + 1}
      THEN 0 ELSE 1] :
     len \in (MAX_INSERTION + 1)..(MAX_INSERTION + BigExtra)}

----------------------------------------------------------------------------
(* const_sort_unstable and const_sort_unstable_by.                          *)

SortComparators == {Cmp("cmp"), Cmp("rev")} \cup Oracles

Init ==
  /\ v \in ShortInputs \cup LongInputs \cup DuplicateInputs
  /\ orig = v
  /\ pc = "idle"
  /\ op = "none"
  /\ cmpk = Cmp("lt")
  /\ ncalls = 0
  /\ stack = <<>>
  /\ heap = [pc |-> "done"]
  /\ blocks = [pc |-> "done"]
  /\ scan = [i |-> 0, answers |-> <<>>]
  /\ ret = [kind |-> "none"]

\* slice.const_sort_unstable(): const_quicksort(self, PartialOrd::lt)
CallSortUnstable ==
  /\ pc = "idle"
  /\ pc' = "recurse"
  /\ op' = "const_sort_unstable"
  /\ cmpk' = Cmp("lt")
  /\ stack' = <<const_quicksort_frame(v)>>
  /\ UNCHANGED <<v, orig, ncalls, heap, scan, ret, blocks>>

\* slice.const_sort_unstable_by(compare)
CallSortUnstableBy ==
  /\ pc = "idle"
  /\ \E c \in SortComparators : cmpk' = c
  /\ pc' = "recurse"
  /\ op' = "const_sort_unstable_by"
  /\ stack' = <<const_quicksort_frame(v)>>
  /\ UNCHANGED <<v, orig, ncalls, heap, scan, ret, blocks>>

Top == stack[Len(stack)]

Pop(st) == SubSeq(st, 1, Len(st) - 1)

\* The stack after the innermost frame has made the step o.
StackAfter(st, o) ==
  IF o.err # "ok" THEN <<>>
  ELSE IF o.kind = "return" THEN Pop(st)
  ELSE IF o.kind = "continue" THEN Append(Pop(st), o.cont)
  ELSE Append(Append(Pop(st), o.cont), o.callee)

\* One iteration of the loop of the innermost active recurse.
RecurseStep ==
  /\ pc = "recurse"
  /\ stack # <<>>
  /\ \E o \in {recurse_iter(v, Top, cmpk, ncalls)} :
       /\ v' = o.v
       /\ ncalls' = o.n
       /\ stack' = StackAfter(stack, o)
       /\ pc' = IF o.err # "ok" THEN "panicked"
                ELSE IF StackAfter(stack, o) = <<>> THEN "done" ELSE "recurse"
       /\ ret' = [kind |-> o.err, via |-> o.via]
  /\ UNCHANGED <<orig, op, cmpk, heap, scan, blocks>>

Next == CallSortUnstable \/ CallSortUnstableBy \/ RecurseStep

Spec == Init /\ [][Next]_vars

\* The long slices of distinct elements: 0, 1, ..., len - 1.
DistinctInputs ==
  {Pattern(len, 1, 29) : len \in (MAX_INSERTION + 1)..(MAX_INSERTION + BigExtra)}

\* The comparators whose unwinding is followed on the slice w: the total
\* orders, and on the short slices and the slices of distinct elements the
\* constant answers too (a constant answer takes the same path whatever
\* the elements are).
PanicComparators(w) ==
  {Cmp("cmp"), Cmp("rev")} \cup
  IF w \in ShortInputs \cup DistinctInputs
  THEN {Oracle([k \in 1..OracleLen |-> o]) : o \in Orderings}
  ELSE {}

\* slice.const_sort_unstable_by(compare), compare being able to unwind.
CallSortUnstableByPanicking ==
  /\ pc = "idle"
  /\ \E c \in PanicComparators(v) : cmpk' = c
  /\ pc' = "recurse"
  /\ op' = "const_sort_unstable_by"
  /\ stack' = <<const_quicksort_frame(v)>>
  /\ UNCHANGED <<v, orig, ncalls, heap, scan, ret, blocks>>

\* One iteration of the loop of the innermost active recurse in which the
\* comparator unwinds: at any one of the invocations the iteration makes.
\* Every guard on the way drops, every frame is unwound.
RecursePanic ==
  /\ pc = "recurse"
  /\ stack # <<>>
  /\ \E k \in ncalls..(recurse_iter(v, Top, cmpk, ncalls).n - 1) :
       \E o \in {recurse_iter(v, Top, [cmpk EXCEPT !.panicAt = k], ncalls)} :
         /\ v' = o.v
         /\ ncalls' = o.n
         /\ stack' = StackAfter(stack, o)
         /\ pc' = IF o.err # "ok" THEN "panicked" ELSE "recurse"
         /\ ret' = [kind |-> o.err, via |-> o.via]
         /\ cmpk' = [cmpk EXCEPT !.panicAt = k]
  /\ UNCHANGED <<orig, op, heap, scan, blocks>>

NextPanic == CallSortUnstableByPanicking \/ RecurseStep \/ RecursePanic

SpecPanic == Init /\ [][NextPanic]_vars

IsSortedAsc(w) == \A k \in 1..(Len(w) - 1) : w[k] <= w[k + 1]

----------------------------------------------------------------------------
(* const_heapsort called directly, one comparison a step.  The comparator  *)
(* is `<`, `>`, or one that answers each call as it likes ("any").         *)

InitHeap ==
  /\ v \in ShortInputs \cup LongInputs
  /\ orig = v
  /\ pc = "idle"
  /\ op = "none"
  /\ cmpk = Cmp("lt")
  /\ ncalls = 0
  /\ stack = <<>>
  /\ heap = [pc |-> "done"]
  /\ blocks = [pc |-> "done"]
  /\ scan = [i |-> 0, answers |-> <<>>]
  /\ ret = [kind |-> "none"]

HeapComparators(w) ==
  {Cmp("lt"), Cmp("gt")} \cup (IF Len(w) <= MaxLen THEN {Cmp("any")} ELSE {})

CallHeapsort ==
  /\ pc = "idle"
  /\ \E c \in HeapComparators(v) : cmpk' = c
  /\ op' = "const_heapsort"
  /\ heap' = heap_start(v, 0)
  /\ pc' = "heapsort"
  /\ UNCHANGED <<v, orig, ncalls, stack, scan, ret, blocks>>

\* is_less is called and answers by the order of the elements.
HeapCompare ==
  /\ pc = "heapsort"
  /\ heap.pc # "done"
  /\ cmpk.kind # "any"
  /\ heap' = heap_answer(heap, is_less(cmpk, heap_a(heap), heap_b(heap), heap.n))
  /\ v' = heap'.v
  /\ ncalls' = heap'.n
  /\ UNCHANGED <<orig, pc, op, cmpk, stack, scan, ret, blocks>>

\* is_less is called and answers anything.
HeapCompareAny ==
  /\ pc = "heapsort"
  /\ heap.pc # "done"
  /\ cmpk.kind = "any"
  /\ \E ans \in BOOLEAN : heap' = heap_answer(heap, ans)
  /\ v' = heap'.v
  /\ ncalls' = heap'.n
  /\ UNCHANGED <<orig, pc, op, cmpk, stack, scan, ret, blocks>>

HeapReturn ==
  /\ pc = "heapsort"
  /\ heap.pc = "done"
  /\ pc' = IF heap.err = "ok" THEN "done" ELSE "panicked"
  /\ ret' = [kind |-> heap.err]
  /\ UNCHANGED <<v, orig, op, cmpk, ncalls, stack, heap, scan, blocks>>

NextHeap == CallHeapsort \/ HeapCompare \/ HeapCompareAny \/ HeapReturn

SpecHeap == InitHeap /\ [][NextHeap]_vars

\* A comparison that is pending is made, and a finished heapsort returns.
LiveSpecHeap ==
  SpecHeap /\ WF_vars(HeapCompare) /\ WF_vars(HeapCompareAny) /\ WF_vars(HeapReturn)

----------------------------------------------------------------------------
(* const_partition_at_index, which the const_select_nth_unstable methods   *)
(* call: the index is checked, the view is narrowed by choose_pivot and     *)
(* partition to the side that holds index until the pivot lands on it, and  *)
(* the slice is split at index.  lo..hi-1 is the view still to narrow.      *)

RECURSIVE partition_at_index_loop(_, _, _, _, _)

\* partition has returned g for the view s.v[lo..hi].
partition_at_index_narrow(s, index, c, lo, hi, g) ==
  IF g.err # "ok" \/ lo + g.mid = index
  THEN [v |-> Splice(s.v, lo, g.v), n |-> g.n, err |-> g.err]
  ELSE IF index < lo + g.mid
  THEN partition_at_index_loop([v |-> Splice(s.v, lo, g.v), n |-> g.n, err |-> "ok"],
                               index, c, lo, lo + g.mid)
  ELSE partition_at_index_loop([v |-> Splice(s.v, lo, g.v), n |-> g.n, err |-> "ok"],
                               index, c, lo + g.mid + 1, hi)

partition_at_index_chosen(cp, c) ==
  IF cp.err # "ok" THEN [v |-> cp.v, n |-> cp.n, err |-> cp.err, mid |-> 0]
  ELSE partition([v |-> cp.v, n |-> cp.n, err |-> "ok"], cp.pivot, c)

partition_at_index_loop(s, index, c, lo, hi) ==
  IF s.err # "ok" \/ hi - lo <= 1 THEN s
  ELSE partition_at_index_narrow(s, index, c, lo, hi,
         partition_at_index_chosen(
           choose_pivot([s EXCEPT !.v = Sub(s.v, lo, hi)], c), c))

\* The index checked with > instead of >=.
const_partition_at_index_past(w, index, c) ==
  IF index > Len(w) THEN Fail(St(w, 0), "panic")
  ELSE partition_at_index_loop(St(w, 0), index, c, 0, Len(w))

\* Returns the computation; when it is "ok" the caller holds the views
\* v[..index], v[index] and v[index + 1..].
const_partition_at_index(w, index, c) ==
  IF index >= Len(w) THEN Fail(St(w, 0), "panic")
  ELSE partition_at_index_loop(St(w, 0), index, c, 0, Len(w))

InitSelect ==
  /\ v \in ShortInputs \cup LongInputs
  /\ orig = v
  /\ pc = "idle"
  /\ op = "none"
  /\ cmpk = Cmp("lt")
  /\ ncalls = 0
  /\ stack = <<>>
  /\ heap = [pc |-> "done"]
  /\ blocks = [pc |-> "done"]
  /\ scan = [i |-> 0, answers |-> <<>>]
  /\ ret = [kind |-> "none"]

\* What a call with this index and comparator leaves behind.
SelectNth(index, c, name) ==
  /\ pc = "idle"
  /\ \E s \in {const_partition_at_index(v, index, c)} :
       /\ v' = s.v
       /\ ncalls' = s.n
       /\ pc' = IF s.err = "ok" THEN "done" ELSE "panicked"
       /\ ret' = [kind |-> s.err, index |-> index]
  /\ cmpk' = c
  /\ op' = name
  /\ UNCHANGED <<orig, stack, heap, scan, blocks>>

\* slice.const_select_nth_unstable(index)
CallSelectNthUnstable ==
  \E index \in 0..(Len(v) + 1) :
    SelectNth(index, Cmp("lt"), "const_select_nth_unstable")

\* slice.const_select_nth_unstable_by(index, compare)
CallSelectNthUnstableBy ==
  \E index \in 0..(Len(v) + 1) : \E c \in {Cmp("cmp"), Cmp("rev")} :
    SelectNth(index, c, "const_select_nth_unstable_by")

NextSelect == CallSelectNthUnstable \/ CallSelectNthUnstableBy

SpecSelect == InitSelect /\ [][NextSelect]_vars

----------------------------------------------------------------------------
(* const_is_sorted_by, one call of compare a step.  compare returns an     *)
(* Option<Ordering>: "None" when the pair is incomparable.                  *)

\* An element that compares with nothing (f32::NAN).
NaN == -1

\* PartialOrd::partial_cmp
partial_cmp(a, b) == IF a = NaN \/ b = NaN THEN "None" ELSE OrdCmp(a, b)

\* What compare may answer for the pair: partial_cmp answers by the order,
\* the comparator "any" as it likes.
CompareAnswers(c, a, b) ==
  IF c.kind = "partial_cmp" THEN {partial_cmp(a, b)}
  ELSE Orderings \cup {"None"}

PartialInputs == UNION {[1..k -> Vals \cup {NaN}] : k \in 0..MaxLen}

InitIsSorted ==
  /\ v \in PartialInputs
  /\ orig = v
  /\ pc = "idle"
  /\ op = "none"
  /\ cmpk = Cmp("lt")
  /\ ncalls = 0
  /\ stack = <<>>
  /\ heap = [pc |-> "done"]
  /\ blocks = [pc |-> "done"]
  /\ scan = [i |-> 0, answers |-> <<>>]
  /\ ret = [kind |-> "none"]

\* slice.const_is_sorted() is const_is_sorted_by(PartialOrd::partial_cmp).
CallIsSorted ==
  /\ pc = "idle"
  /\ pc' = "is_sorted"
  /\ op' = "const_is_sorted"
  /\ cmpk' = Cmp("partial_cmp")
  /\ scan' = [i |-> 1, answers |-> <<>>]
  /\ UNCHANGED <<v, orig, ncalls, stack, heap, ret, blocks>>

CallIsSortedBy ==
  /\ pc = "idle"
  /\ pc' = "is_sorted"
  /\ op' = "const_is_sorted_by"
  /\ cmpk' = Cmp("any")
  /\ scan' = [i |-> 1, answers |-> <<>>]
  /\ UNCHANGED <<v, orig, ncalls, stack, heap, ret, blocks>>

\* Only Greater ends the scan: an incomparable pair is passed over.
is_sorted_body_greater_only(sc, ord) ==
  [i |-> IF ord = "Greater" THEN sc.i ELSE sc.i + 1,
   answers |-> Append(sc.answers, ord),
   returned |-> ord = "Greater"]

\* The body of `while i < self.len()` for the answer ord of compare: the
\* position after it, and whether the method returns false there.
is_sorted_body(sc, ord) ==
  [i |-> IF ord = "None" \/ ord = "Greater" THEN sc.i ELSE sc.i + 1,
   answers |-> Append(sc.answers, ord),
   returned |-> ord = "None" \/ ord = "Greater"]

\* One iteration of the loop.
IsSortedStep ==
  /\ pc = "is_sorted"
  /\ scan.i < Len(v)
  /\ \E ord \in CompareAnswers(cmpk, At(v, scan.i - 1), At(v, scan.i)) :
       LET b == is_sorted_body(scan, ord) IN
         /\ scan' = [i |-> b.i, answers |-> b.answers]
         /\ pc' = IF b.returned THEN "done" ELSE "is_sorted"
         /\ ret' = IF b.returned THEN [kind |-> "ok", value |-> FALSE] ELSE ret
  /\ ncalls' = ncalls + 1
  /\ UNCHANGED <<v, orig, op, cmpk, stack, heap, blocks>>

\* The loop has ended: true.
IsSortedReturn ==
  /\ pc = "is_sorted"
  /\ ~(scan.i < Len(v))
  /\ pc' = "done"
  /\ ret' = [kind |-> "ok", value |-> TRUE]
  /\ UNCHANGED <<v, orig, op, cmpk, ncalls, stack, heap, scan, blocks>>

NextIsSorted == CallIsSorted \/ CallIsSortedBy \/ IsSortedStep \/ IsSortedReturn

SpecIsSorted == InitIsSorted /\ [][NextIsSorted]_vars

----------------------------------------------------------------------------
(* partition and partition_equal called on a view of their own.             *)

\* Views longer than two blocks of partition_in_blocks.
WideInputs ==
  {Pattern(len, mul, md) :
     len \in (2 * BLOCK + 3)..(2 * BLOCK + 2 + WideExtra),
     mul \in Multipliers, md \in Moduli}

\* The pivot indices tried on the view w: all of them on a short view, the
\* ones choose_pivot starts from and the two ends on a longer view.
Pivots(w) ==
  IF Len(w) <= MaxLen THEN 0..(Len(w) - 1)
  ELSE {0, Len(w) \div 4, (Len(w) \div 4) * 2, (Len(w) \div 4) * 3, Len(w) - 1}

\* is_less of a total order: a < b and b < a.
TotalOrders == {Cmp("lt"), Cmp("rev")}

InitPartition ==
  /\ v \in ShortInputs \cup LongInputs \cup WideInputs
  /\ orig = v
  /\ pc = "idle"
  /\ op = "none"
  /\ cmpk = Cmp("lt")
  /\ ncalls = 0
  /\ stack = <<>>
  /\ heap = [pc |-> "done"]
  /\ blocks = [pc |-> "done"]
  /\ scan = [i |-> 0, answers |-> <<>>]
  /\ ret = [kind |-> "none"]

\* partition(v, pivot, is_less)
CallPartition ==
  /\ pc = "idle"
  /\ \E pivot \in Pivots(v), c \in TotalOrders :
       \E g \in {partition(St(v, 0), pivot, c)} :
         /\ v' = g.v
         /\ ncalls' = g.n
         /\ cmpk' = c
         /\ ret' = [kind |-> g.err, mid |-> g.mid, pivot |-> pivot,
                    was_partitioned |-> g.was_partitioned]
  /\ pc' = "done"
  /\ op' = "partition"
  /\ UNCHANGED <<orig, stack, heap, scan, blocks>>

\* No element of w is less than w[pivot]: what partition_equal assumes.
NoneSmaller(c, w, pivot) ==
  \A i \in 0..(Len(w) - 1) : ~is_less(c, At(w, i), At(w, pivot), 0)

\* partition_equal(v, pivot, is_less)
CallPartitionEqual ==
  /\ pc = "idle"
  /\ \E c \in TotalOrders :
       \E pivot \in {q \in Pivots(v) : NoneSmaller(c, v, q)} :
       \E g \in {partition_equal(St(v, 0), pivot, c)} :
         /\ v' = g.v
         /\ ncalls' = g.n
         /\ cmpk' = c
         /\ ret' = [kind |-> g.err, mid |-> g.mid, pivot |-> pivot,
                    was_partitioned |-> FALSE]
  /\ pc' = "done"
  /\ op' = "partition_equal"
  /\ UNCHANGED <<orig, stack, heap, scan, blocks>>

NextPartition == CallPartition \/ CallPartitionEqual

SpecPartition == InitPartition /\ [][NextPartition]_vars

\* The invocations of the comparator, of the calls a run makes, at which
\* it is made to unwind on the view w.
PanicPoints(w, calls) ==
  IF Len(w) <= 2 * BLOCK THEN 0..(calls - 1)
  ELSE {k \in 0..(calls - 1) : k % PanicStride = 0 \/ k = calls - 1}

\* partition(v, pivot, is_less), is_less unwinding at its k-th invocation.
CallPartitionPanicking ==
  /\ pc = "idle"
  /\ \E pivot \in Pivots(v), c \in TotalOrders :
       \E k \in PanicPoints(v, partition(St(v, 0), pivot, c).n) :
         \E g \in {partition(St(v, 0), pivot, [c EXCEPT !.panicAt = k])} :
           /\ v' = g.v
           /\ ncalls' = g.n
           /\ cmpk' = [c EXCEPT !.panicAt = k]
           /\ ret' = [kind |-> g.err, mid |-> g.mid, pivot |-> pivot,
                      was_partitioned |-> g.was_partitioned]
  /\ pc' = "panicked"
  /\ op' = "partition"
  /\ UNCHANGED <<orig, stack, heap, scan, blocks>>

\* partition_equal(v, pivot, is_less), is_less unwinding at its k-th
\* invocation.
CallPartitionEqualPanicking ==
  /\ pc = "idle"
  /\ \E c \in TotalOrders :
       \E pivot \in {q \in Pivots(v) : NoneSmaller(c, v, q)} :
       \E k \in PanicPoints(v, partition_equal(St(v, 0), pivot, c).n) :
       \E g \in {partition_equal(St(v, 0), pivot, [c EXCEPT !.panicAt = k])} :
         /\ v' = g.v
         /\ ncalls' = g.n
         /\ cmpk' = [c EXCEPT !.panicAt = k]
         /\ ret' = [kind |-> g.err, mid |-> g.mid, pivot |-> pivot,
                    was_partitioned |-> FALSE]
  /\ pc' = "panicked"
  /\ op' = "partition_equal"
  /\ UNCHANGED <<orig, stack, heap, scan, blocks>>

NextPartitionPanic == CallPartitionPanicking \/ CallPartitionEqualPanicking

SpecPartitionPanic == InitPartition /\ [][NextPartitionPanic]_vars

----------------------------------------------------------------------------
(* partition_in_blocks called on a view of its own, one part of a pass of   *)
(* its loop a step: adjust, trace, exchange, advance; then the remaining    *)
(* block.  blocks.p holds the locals, blocks.is_done what the pass decided  *)
(* at its head.  The comparator answers each call as the caller chose, so   *)
(* the elements play no role: the view holds 0, 1, ..., len - 1.            *)

\* The lengths of the views: the short ones, and the ones around one block,
\* two blocks and more blocks.
BlockLens ==
  (0..MaxLen) \cup ((BLOCK - 1)..(BLOCK + 1))
  \cup ((2 * BLOCK - 1)..(2 * BLOCK + 2 + WideExtra))
  \cup {3 * BLOCK + 1, 4 * BLOCK + 3}

\* On a short view every sequence of answers, one per element; on a longer
\* view the periodic sequences.
BlockComparators(w) ==
  IF Len(w) = 0 THEN {Oracle(<<"Less">>)}
  ELSE IF Len(w) <= MaxLen
  THEN {Oracle(b) : b \in [1..Len(w) -> {"Less", "Greater"}]}
  ELSE Oracles

InitBlocks ==
  /\ v \in {[k \in 1..len |-> k - 1] : len \in BlockLens}
  /\ orig = v
  /\ pc = "idle"
  /\ op = "none"
  /\ cmpk = Cmp("lt")
  /\ ncalls = 0
  /\ stack = <<>>
  /\ heap = [pc |-> "done"]
  /\ scan = [i |-> 0, answers |-> <<>>]
  /\ blocks = [pc |-> "done"]
  /\ ret = [kind |-> "none"]

\* partition_in_blocks(v, pivot, is_less): the locals are initialised.
CallPartitionInBlocks ==
  /\ pc = "idle"
  /\ \E c \in BlockComparators(v) : cmpk' = c
  /\ pc' = "partition_in_blocks"
  /\ op' = "partition_in_blocks"
  /\ blocks' = [pc |-> "loop", is_done |-> FALSE, p |-> blocks_init(St(v, 0))]
  /\ UNCHANGED <<v, orig, ncalls, stack, heap, scan, ret>>

\* The part of the pass that blocks.pc names has run and left the locals q.
BlocksAfter(q, next, is_done) ==
  /\ v' = q.v
  /\ ncalls' = q.n
  /\ blocks' = [pc |-> IF q.err = "ok" THEN next ELSE "done",
                is_done |-> is_done, p |-> q]
  /\ pc' = IF q.err = "ok" THEN pc ELSE "panicked"
  /\ ret' = IF q.err = "ok" THEN ret ELSE [kind |-> q.err]
  /\ UNCHANGED <<orig, op, cmpk, stack, heap, scan>>

\* The head of a pass: is_done, and the block sizes adjusted when done.
BlocksAdjust ==
  /\ pc = "partition_in_blocks" /\ blocks.pc = "loop"
  /\ BlocksAfter(blocks_adjust(blocks.p), "trace",
                 width(blocks.p.l, blocks.p.r) <= 2 * BLOCK)

BlocksTrace ==
  /\ pc = "partition_in_blocks" /\ blocks.pc = "trace"
  /\ BlocksAfter(blocks_trace_r(blocks_trace_l(blocks.p, cmpk, 0), cmpk, 0),
                 "exchange", blocks.is_done)

BlocksExchange ==
  /\ pc = "partition_in_blocks" /\ blocks.pc = "exchange"
  /\ BlocksAfter(blocks_exchange(blocks.p), "advance", blocks.is_done)

\* The blocks are advanced; `if is_done { break; }`.
BlocksAdvance ==
  /\ pc = "partition_in_blocks" /\ blocks.pc = "advance"
  /\ BlocksAfter(blocks_advance_r(blocks_advance_l(blocks.p)),
                 IF blocks.is_done THEN "remaining" ELSE "loop", blocks.is_done)

\* After the loop: the remaining block is moved and the count returned.
BlocksReturn ==
  /\ pc = "partition_in_blocks" /\ blocks.pc = "remaining"
  /\ \E g \in {blocks_finish(blocks.p)} :
       /\ v' = g.v
       /\ ncalls' = g.n
       /\ pc' = IF g.err = "ok" THEN "done" ELSE "panicked"
       /\ ret' = [kind |-> g.err, mid |-> g.ret]
  /\ blocks' = [blocks EXCEPT !.pc = "done"]
  /\ UNCHANGED <<orig, op, cmpk, stack, heap, scan>>

NextBlocks ==
  \/ CallPartitionInBlocks
  \/ BlocksAdjust
  \/ BlocksTrace
  \/ BlocksExchange
  \/ BlocksAdvance
  \/ BlocksReturn

SpecBlocks == InitBlocks /\ [][NextBlocks]_vars

----------------------------------------------------------------------------
(* shift_head, shift_tail, insertion_sort and partial_insertion_sort each   *)
(* called on a view of its own, the comparator unwinding at a call the      *)
(* caller chose or at none.                                                 *)

\* 0, 1, ..., len - 1 with the first n pairs of neighbours exchanged:
\* 1, 0, 3, 2, ...
Transposed(len, n) ==
  [k \in 1..len |->
     IF k <= 2 * n THEN (IF k % 2 = 1 THEN k ELSE k - 2) ELSE k - 1]

\* Views long enough for partial_insertion_sort to shift: ascending runs
\* that start over at a few places, and ascending views with up to
\* MAX_STEPS + 1 pairs out of order.
ShiftInputs ==
  {Pattern(len, 1, md) :
     len \in (SHORTEST_SHIFTING - 1)..(SHORTEST_SHIFTING + 1),
     md \in {SHORTEST_SHIFTING \div 2, SHORTEST_SHIFTING - MAX_STEPS}}
  \cup {Transposed(len, n) :
          len \in (SHORTEST_SHIFTING - 1)..(SHORTEST_SHIFTING + 1),
          n \in 0..(MAX_STEPS + 1)}

ShiftComparators(w) ==
  IF Len(w) <= MaxLen THEN SortComparators ELSE {Cmp("cmp"), Cmp("rev")}

InitShift ==
  /\ v \in ShortInputs \cup ShiftInputs
  /\ orig = v
  /\ pc = "idle"
  /\ op = "none"
  /\ cmpk = Cmp("lt")
  /\ ncalls = 0
  /\ stack = <<>>
  /\ heap = [pc |-> "done"]
  /\ scan = [i |-> 0, answers |-> <<>>]
  /\ blocks = [pc |-> "done"]
  /\ ret = [kind |-> "none"]

\* The calls at which the comparator may unwind: any of the n the run makes,
\* or none.
UnwindAt(c, n) == {[c EXCEPT !.panicAt = k] : k \in (-1)..(n - 1)}

\* The call has come back with o and the value value, by return or
\* unwinding.
Shifted(name, c, o, value) ==
  /\ v' = o.v
  /\ ncalls' = o.n
  /\ cmpk' = c
  /\ op' = name
  /\ pc' = IF o.err = "ok" THEN "done" ELSE "panicked"
  /\ ret' = [kind |-> o.err, value |-> value]
  /\ UNCHANGED <<orig, stack, heap, scan, blocks>>

CallShiftHead ==
  /\ pc = "idle"
  /\ \E c0 \in ShiftComparators(v) :
       \E c \in UnwindAt(c0, shift_head(St(v, 0), c0).n) :
         Shifted("shift_head", c, shift_head(St(v, 0), c), <<>>)

CallShiftTail ==
  /\ pc = "idle"
  /\ \E c0 \in ShiftComparators(v) :
       \E c \in UnwindAt(c0, shift_tail(St(v, 0), c0).n) :
         Shifted("shift_tail", c, shift_tail(St(v, 0), c), <<>>)

\* recurse calls insertion_sort on views of at most MAX_INSERTION elements.
CallInsertionSort ==
  /\ pc = "idle"
  /\ Len(v) <= MAX_INSERTION
  /\ \E c0 \in ShiftComparators(v) :
       \E c \in UnwindAt(c0, insertion_sort(St(v, 0), c0).n) :
         Shifted("insertion_sort", c, insertion_sort(St(v, 0), c), <<>>)

CallPartialInsertionSort ==
  /\ pc = "idle"
  /\ \E c0 \in ShiftComparators(v) :
       \E c \in UnwindAt(c0, partial_insertion_sort(St(v, 0), c0).n) :
         Shifted("partial_insertion_sort", c,
                 partial_insertion_sort(St(v, 0), c),
                 partial_insertion_sort(St(v, 0), c).ret)

NextShift ==
  \/ CallShiftHead
  \/ CallShiftTail
  \/ CallInsertionSort
  \/ CallPartialInsertionSort

SpecShift == InitShift /\ [][NextShift]_vars

----------------------------------------------------------------------------
(* choose_pivot called on a view of its own.                                *)

\* The lengths of the views: below 8 and from 8 on (median of three), and
\* around SHORTEST_MEDIAN_OF_MEDIANS.
ChooseLens ==
  (MaxLen + 1)..(2 * MaxLen + MaxLen)
  \cup (SHORTEST_MEDIAN_OF_MEDIANS - 1)..(SHORTEST_MEDIAN_OF_MEDIANS + MaxLen)

\* The patterned views and the same views back to front: ascending,
\* descending, constant, and mixed.
ChooseInputs ==
  ShortInputs
  \cup {Pattern(len, mul, md) :
          len \in ChooseLens, mul \in Multipliers, md \in Moduli}
  \cup {Reverse(Pattern(len, mul, md)) :
          len \in ChooseLens, mul \in Multipliers, md \in Moduli}
  \cup {Reverse([k \in 1..len |-> k - 1]) : len \in ChooseLens}

InitChoose ==
  /\ v \in ChooseInputs
  /\ orig = v
  /\ pc = "idle"
  /\ op = "none"
  /\ cmpk = Cmp("lt")
  /\ ncalls = 0
  /\ stack = <<>>
  /\ heap = [pc |-> "done"]
  /\ scan = [i |-> 0, answers |-> <<>>]
  /\ blocks = [pc |-> "done"]
  /\ ret = [kind |-> "none"]

\* The locals of choose_pivot at `if swaps < MAX_SWAPS`.
choose_locals(w, c) ==
  choose_median(w, c, choose_medians(w, c, choose_start(Len(w), 0)))

\* choose_pivot(v, is_less) has returned o; q holds its locals at the end.
Chosen(c, o, q) ==
  /\ v' = o.v
  /\ ncalls' = o.n
  /\ cmpk' = c
  /\ op' = "choose_pivot"
  /\ pc' = IF o.err = "ok" THEN "done" ELSE "panicked"
  /\ ret' = [kind |-> o.err, pivot |-> o.pivot,
             likely_sorted |-> o.likely_sorted, swaps |-> q.swaps, b |-> q.b]
  /\ UNCHANGED <<orig, stack, heap, scan, blocks>>

CallChoosePivot ==
  /\ pc = "idle"
  /\ \E c \in SortComparators :
       Chosen(c, choose_pivot(St(v, 0), c), choose_locals(v, c))

NextChoose == CallChoosePivot

SpecChoose == InitChoose /\ [][NextChoose]_vars

----------------------------------------------------------------------------
(* break_patterns called on a view of its own.                              *)

\* Views of the same lengths with different contents: the patterned views
\* and the views 0, 1, ..., len - 1.
BreakInputs ==
  ChooseInputs \cup LongInputs
  \cup {[k \in 1..len |-> k - 1] :
          len \in ChooseLens \cup (MAX_INSERTION + 1)..(MAX_INSERTION + BigExtra)}

InitBreak ==
  /\ v \in BreakInputs
  /\ orig = v
  /\ pc = "idle"
  /\ op = "none"
  /\ cmpk = Cmp("lt")
  /\ ncalls = 0
  /\ stack = <<>>
  /\ heap = [pc |-> "done"]
  /\ scan = [i |-> 0, answers |-> <<>>]
  /\ blocks = [pc |-> "done"]
  /\ ret = [kind |-> "none"]

\* break_patterns(v)
CallBreakPatterns ==
  /\ pc = "idle"
  /\ \E o \in {break_patterns(St(v, 0))} :
       /\ v' = o.v
       /\ pc' = IF o.err = "ok" THEN "done" ELSE "panicked"
       /\ ret' = [kind |-> o.err]
  /\ op' = "break_patterns"
  /\ UNCHANGED <<orig, cmpk, ncalls, stack, heap, scan, blocks>>

NextBreak == CallBreakPatterns

SpecBreak == InitBreak /\ [][NextBreak]_vars

----------------------------------------------------------------------------
(* Properties. *)

IsSortedDesc(w) == \A k \in 1..(Len(w) - 1) : w[k] >= w[k + 1]

\* The element at zero-based position k of the sorted w: fewer than k + 1
\* elements are smaller than it, and more than k are at most it.
NthSmallest(w, k) ==
  CHOOSE x \in Range(w) :
    /\ Cardinality({i \in 1..Len(w) : w[i] < x}) <= k
    /\ k < Cardinality({i \in 1..Len(w) : w[i] <= x})

ViewLen(f) == f.hi - f.lo

\* The work the active frames of recurse still stand for: each frame counts
\* once, and twice for every element of its view.
RECURSIVE Pending(_)
Pending(st) ==
  IF st = <<>> THEN 0 ELSE 2 * ViewLen(Head(st)) + 1 + Pending(Tail(st))

Accepted(ord) == ord \in {"Less", "Equal"}

\* C1: after const_sort_unstable (const_quicksort with PartialOrd::lt) has
\* returned, R[i] <= R[i + 1] for every valid i, for slices at most and more
\* than MAX_INSERTION long.
C1_SortedOrder ==
  (pc = "done" /\ op = "const_sort_unstable") => IsSortedAsc(v)

\* A slice longer than MAX_INSERTION that was out of order has been sorted.
C1_Witness ==
  /\ pc = "done" /\ op = "const_sort_unstable"
  /\ Len(v) > MAX_INSERTION
  /\ ~IsSortedAsc(orig)

\* C2: the slice after const_sort_unstable is a permutation of the slice it
\* was handed: every value occurs as often as before (empty, one-element
\* and all-equal slices included).
C2_Permutation ==
  (pc \in {"done", "panicked"} /\ op = "const_sort_unstable") => IsPermutation(v, orig)

\* A slice with repeated values was rearranged.
C2_Witness ==
  /\ pc = "done" /\ op = "const_sort_unstable"
  /\ v # orig
  /\ Cardinality(Range(v)) < Len(v)

\* C3: const_sort_unstable_by with a comparator that answers Less, Equal or
\* Greater without regard to the elements never panics, never leaves the
\* slice with an index, and keeps the slice a permutation of its input.
C3_InconsistentComparator ==
  (op = "const_sort_unstable_by" /\ cmpk.kind = "oracle") =>
    /\ pc # "panicked"
    /\ ret.kind \in {"none", "ok"}
    /\ IsPermutation(v, orig)

\* A long slice was sorted to the end under answers that contradict the
\* order of its elements, and came out in another arrangement.
C3_Witness ==
  /\ pc = "done" /\ op = "const_sort_unstable_by" /\ cmpk.kind = "oracle"
  /\ Len(v) > MAX_INSERTION
  /\ ncalls > Len(v)
  /\ v # orig
  /\ ~IsSortedAsc(v)

\* C4: const_sort_unstable_by terminates for every comparator: an iteration
\* of recurse's loop returns, or continues on a strictly shorter view, or
\* calls recurse on a strictly shorter view and continues on a strictly
\* shorter one.  A sort that has not returned can make its next iteration,
\* and each iteration lowers Pending, which is never negative: so there are
\* at most Pending(<<const_quicksort_frame(v)>>) iterations.
C4_Terminates ==
  /\ [](pc = "recurse" => (stack # <<>> /\ Pending(stack) > 0))
  /\ [][pc = "recurse" =>
          /\ Pending(stack') < Pending(stack)
          /\ \/ Len(stack') < Len(stack)
             \/ /\ Len(stack') = Len(stack)
                /\ Pop(stack') = Pop(stack)
                /\ ViewLen(stack'[Len(stack)]) < ViewLen(Top)
             \/ /\ Len(stack') = Len(stack) + 1
                /\ Pop(Pop(stack')) = Pop(stack)
                /\ ViewLen(stack'[Len(stack)]) < ViewLen(Top)
                /\ ViewLen(stack'[Len(stack')]) < ViewLen(Top)]_vars

\* After a split into left, pivot and right, the loop has continued behind a
\* run of elements equal to the predecessor (partition_equal), with elements
\* still to sort.
C4_Witness ==
  /\ pc = "recurse" /\ op = "const_sort_unstable_by"
  /\ stack # <<>>
  /\ Top.pred # <<>>
  /\ Top.lo > Top.pred[1] + 1
  /\ ViewLen(Top) > 0

\* C5: for every view length n >= 0 and a strict total order, const_heapsort
\* returns normally and leaves a permutation of its input with no i such
\* that less_than(v[i + 1], v[i]): non-decreasing for `<`, non-increasing
\* for `>`.
C5_HeapsortEveryLength ==
  (op = "const_heapsort" /\ cmpk.kind \in {"lt", "gt"}) =>
    /\ pc # "panicked"
    /\ pc = "done" =>
         /\ IsPermutation(v, orig)
         /\ cmpk.kind = "lt" => IsSortedAsc(v)
         /\ cmpk.kind = "gt" => IsSortedDesc(v)

\* C5, for the lengths the code serves: from two elements on const_heapsort
\* returns normally with a sorted permutation.
C5_HeapsortFromTwo ==
  (op = "const_heapsort" /\ cmpk.kind \in {"lt", "gt"} /\ Len(orig) >= 2) =>
    /\ pc # "panicked"
    /\ pc = "done" =>
         /\ IsPermutation(v, orig)
         /\ cmpk.kind = "lt" => IsSortedAsc(v)
         /\ cmpk.kind = "gt" => IsSortedDesc(v)

\* const_heapsort has sorted a view that was out of order.
C5_Witness ==
  /\ pc = "done" /\ op = "const_heapsort" /\ cmpk.kind \in {"lt", "gt"}
  /\ v # orig

\* C6: const_heapsort on a view of two or more elements, is_less answering
\* each call as it likes, never panics, never indexes outside the view,
\* keeps the view a permutation of the input, and returns.
C6_HeapsortAnyAnswers ==
  /\ [](  (op = "const_heapsort" /\ cmpk.kind = "any" /\ Len(orig) >= 2) =>
            /\ pc # "panicked"
            /\ heap.err = "ok"
            /\ IsPermutation(v, orig))
  /\ (pc = "heapsort" /\ cmpk.kind = "any" /\ Len(orig) >= 2) ~> (pc = "done")

\* Heapsort has returned from a view of at least three elements after
\* answers that left it unsorted.
C6_Witness ==
  /\ pc = "done" /\ op = "const_heapsort" /\ cmpk.kind = "any"
  /\ Len(v) >= 3
  /\ ~IsSortedAsc(v) /\ ~IsSortedDesc(v)

\* C7: const_sort_unstable_by with compare(a, b) = b.cmp(a) leaves the slice
\* non-increasing: R[i] >= R[i + 1] for every valid i.
C7_ReversedComparator ==
  (pc = "done" /\ op = "const_sort_unstable_by" /\ cmpk.kind = "rev") =>
    IsSortedDesc(v)

\* A long slice that was not non-increasing has been sorted in reverse.
C7_Witness ==
  /\ pc = "done" /\ op = "const_sort_unstable_by" /\ cmpk.kind = "rev"
  /\ Len(v) > MAX_INSERTION
  /\ ~IsSortedDesc(orig)

\* C8: const_select_nth_unstable and const_select_nth_unstable_by panic
\* exactly when index >= len (every index on an empty slice, index = len);
\* for every index < len they return.
C8_SelectIndexCheck ==
  (op \in {"const_select_nth_unstable", "const_select_nth_unstable_by"}) =>
    /\ pc \in {"done", "panicked"}
    /\ pc = "panicked" <=> ret.index >= Len(orig)
    /\ pc = "panicked" => (ret.kind = "panic" /\ v = orig)
    /\ pc = "done" => ret.kind = "ok"

\* The call with index = len on a slice that is not empty has panicked.
C8_Witness ==
  /\ pc = "panicked" /\ op = "const_select_nth_unstable"
  /\ Len(orig) > 0
  /\ ret.index = Len(orig)

\* C9: after const_select_nth_unstable(k) with k < len and a total order,
\* the element at k is the one at position k of the sorted slice, no element
\* before k is greater than it and no element after k is smaller.
C9_SelectNth ==
  (pc = "done" /\ op = "const_select_nth_unstable") =>
    /\ IsPermutation(v, orig)
    /\ At(v, ret.index) = NthSmallest(orig, ret.index)
    /\ \A i \in 0..(ret.index - 1) : At(v, i) <= At(v, ret.index)
    /\ \A j \in (ret.index + 1)..(Len(v) - 1) : At(v, j) >= At(v, ret.index)

\* An element strictly inside a long slice was selected, and it was not
\* there before.
C9_Witness ==
  /\ pc = "done" /\ op = "const_select_nth_unstable"
  /\ Len(v) > MAX_INSERTION
  /\ 0 < ret.index /\ ret.index < Len(v) - 1
  /\ At(orig, ret.index) # At(v, ret.index)

\* C10: const_is_sorted_by returns true exactly when compare answered
\* Some(Less) or Some(Equal) for every adjacent pair; it returns false at the
\* first pair that is None or Greater, without asking about a later one;
\* it returns true for slices of length 0 and 1; it never modifies the slice.
C10_IsSortedBy ==
  /\ v = orig
  /\ (pc = "done" /\ op \in {"const_is_sorted", "const_is_sorted_by"}) =>
       /\ ret.value <=>
            /\ Len(scan.answers) = (IF Len(v) = 0 THEN 0 ELSE Len(v) - 1)
            /\ \A k \in 1..Len(scan.answers) : Accepted(scan.answers[k])
       /\ ~ret.value =>
            /\ scan.answers # <<>>
            /\ ~Accepted(scan.answers[Len(scan.answers)])
            /\ \A k \in 1..(Len(scan.answers) - 1) : Accepted(scan.answers[k])
       /\ ncalls = Len(scan.answers)
       /\ Len(v) <= 1 => ret.value
       /\ op = "const_is_sorted" =>
            (ret.value <=>
               \A k \in 1..(Len(v) - 1) : Accepted(partial_cmp(v[k], v[k + 1])))

\* compare answered None for a pair that is not the last one, and false was
\* returned at once.
C10_Witness ==
  /\ pc = "done" /\ op = "const_is_sorted_by"
  /\ ~ret.value
  /\ Len(scan.answers) >= 2
  /\ Len(scan.answers) < Len(v) - 1
  /\ scan.answers[Len(scan.answers)] = "None"

\* C11: every recursive call of recurse is made on the shorter side of the
\* partition, a view of at most floor((len - 1) / 2) elements of the
\* caller's len, and for a slice of n >= 1 elements the nesting depth of
\* recurse never exceeds floor(log2(n)) + 1, whatever the comparator.
C11_DepthBound ==
  /\ [](Len(v) >= 1 => Len(stack) <= BitLength(Len(v)))
  /\ [][(pc = "recurse" /\ Len(stack') = Len(stack) + 1) =>
          /\ ViewLen(stack'[Len(stack')]) <= (ViewLen(Top) - 1) \div 2
          /\ ViewLen(stack'[Len(stack')]) <= ViewLen(stack'[Len(stack)])]_vars

\* recurse runs nested in recurse, on a view that is not empty.
C11_Witness ==
  /\ pc = "recurse"
  /\ Len(stack) = 2
  /\ ViewLen(Top) > 0
  /\ ViewLen(stack[1]) > ViewLen(Top)

C13_PanicPermutation ==
  pc = "panicked" => (ret.kind = "panic" /\ IsPermutation(v, orig))

\* The comparator unwound while insertion_sort held an element out of the
\* slice, and the slice was already rearranged.
C13_Witness ==
  /\ pc = "panicked"
  /\ op = "const_sort_unstable_by"
  /\ ret.kind = "panic" /\ ret.via = "insertion_sort"
  /\ cmpk.panicAt > 0
  /\ v # orig

\* a is less than b in the order of the comparator c.
Less(c, a, b) == is_less(c, a, b, 0)

\* C14: partition on a view with a pivot index below its length, under a
\* total order, returns mid < len; the view is a permutation of what it
\* was; v[mid] is the pivot; every element of v[..mid] is less than v[mid]
\* and no element of v[mid+1..] is less than v[mid].
C14_Partition ==
  (pc = "done" /\ op = "partition") =>
    /\ ret.kind = "ok"
    /\ ret.mid >= 0 /\ ret.mid < Len(v)
    /\ IsPermutation(v, orig)
    /\ At(v, ret.mid) = At(orig, ret.pivot)
    /\ \A i \in 0..(ret.mid - 1) : Less(cmpk, At(v, i), At(v, ret.mid))
    /\ \A i \in (ret.mid + 1)..(Len(v) - 1) : ~Less(cmpk, At(v, i), At(v, ret.mid))

\* partition has returned from a view on which block partitioning was
\* handed more than two blocks, elements on both sides of the pivot.
C14_Witness ==
  /\ pc = "done" /\ op = "partition"
  /\ Len(v) > 2 * BLOCK + 1
  /\ ~Less(cmpk, At(orig, IF ret.pivot = 0 THEN 1 ELSE 0), At(orig, ret.pivot))
  /\ Less(cmpk, At(orig, Len(v) - 1), At(orig, ret.pivot))
  /\ ret.mid > BLOCK /\ ret.mid < Len(v) - BLOCK
  /\ v # orig

\* The view w, its pivot at index 0, is partitioned as it stands: elements
\* less than the pivot, then elements not less than it.
AlreadyPartitioned(c, w) ==
  \E m \in 1..Len(w) :
    /\ \A i \in 1..(m - 1) : Less(c, At(w, i), At(w, 0))
    /\ \A i \in m..(Len(w) - 1) : ~Less(c, At(w, i), At(w, 0))

\* C15: the second result of partition is true exactly when the view, its
\* pivot moved to the front, was already partitioned: no element had to
\* change sides, and the view differs from the one entered only by the two
\* swaps of the pivot.
C15_WasPartitioned ==
  (pc = "done" /\ op = "partition" /\ ret.kind = "ok") =>
    /\ ret.was_partitioned <=> AlreadyPartitioned(cmpk, Swap(orig, 0, ret.pivot))
    /\ ret.was_partitioned <=> (v = Swap(Swap(orig, 0, ret.pivot), 0, ret.mid))

\* partition reports an already partitioned view that has elements on
\* both sides of the pivot.
C15_Witness ==
  /\ pc = "done" /\ op = "partition" /\ ret.kind = "ok"
  /\ ret.was_partitioned
  /\ Len(v) > MAX_INSERTION
  /\ ret.mid > 1 /\ ret.mid < Len(v) - 2

\* C17: when the comparator unwinds inside partition or partition_equal,
\* the pivot held out of the view is back at index 0, where the initial
\* swap put it, and the view holds every element it held on entry exactly
\* once.
C17_PivotWrittenBack ==
  (pc = "panicked" /\ op \in {"partition", "partition_equal"}) =>
    /\ ret.kind = "panic"
    /\ At(v, 0) = At(orig, ret.pivot)
    /\ IsPermutation(v, orig)
    /\ IsPermutation(Sub(v, 1, Len(v)), Sub(Swap(orig, 0, ret.pivot), 1, Len(v)))

\* The comparator unwound in partition after elements had been exchanged
\* between the two sides.
C17_Witness ==
  /\ pc = "panicked" /\ op = "partition"
  /\ ret.kind = "panic"
  /\ Sub(v, 1, Len(v)) # Sub(Swap(orig, 0, ret.pivot), 1, Len(v))

\* C19: partition_equal on a view none of whose elements is less than
\* v[pivot], under a total order, returns a count c with 1 <= c <= len; the
\* view is a permutation of what it was; every element of v[..c] is equal to
\* the pivot and every element of v[c..] is greater; c is the number of
\* elements equal to the pivot, itself included.
C19_PartitionEqual ==
  (pc = "done" /\ op = "partition_equal") =>
    /\ ret.kind = "ok"
    /\ 1 <= ret.mid /\ ret.mid <= Len(v)
    /\ IsPermutation(v, orig)
    /\ \A i \in 0..(ret.mid - 1) :
         /\ ~Less(cmpk, At(v, i), At(orig, ret.pivot))
         /\ ~Less(cmpk, At(orig, ret.pivot), At(v, i))
    /\ \A i \in ret.mid..(Len(v) - 1) : Less(cmpk, At(orig, ret.pivot), At(v, i))
    /\ ret.mid = CountOf(orig, At(orig, ret.pivot))

\* partition_equal has returned from a view longer than two blocks, which
\* it rearranged; elements equal to the pivot and greater ones.
C19_Witness ==
  /\ pc = "done" /\ op = "partition_equal"
  /\ Len(v) > 2 * BLOCK
  /\ ret.mid > 1 /\ ret.mid < Len(v) - 1
  /\ Sub(v, 1, Len(v)) # Sub(Swap(orig, 0, ret.pivot), 1, Len(v))

\* C16: in partition_in_blocks, whatever the length of the view and the
\* answers of the comparator: nothing fails (no index on offsets_l or
\* offsets_r reaches BLOCK, no offset is read before it was written, every
\* element pointer that is dereferenced lies inside the view, the two
\* debug assertions hold), start <= end in both buffers, l <= r inside the
\* view, and in the final pass the adjusted block sizes are at most BLOCK
\* and together exactly the number of elements between l and r.
C16_BlocksInBounds ==
  op = "partition_in_blocks" =>
    /\ pc # "panicked"
    /\ blocks.p.err = "ok"
    /\ 0 <= blocks.p.start_l /\ blocks.p.start_l <= blocks.p.end_l
    /\ blocks.p.end_l <= BLOCK
    /\ 0 <= blocks.p.start_r /\ blocks.p.start_r <= blocks.p.end_r
    /\ blocks.p.end_r <= BLOCK
    /\ 0 <= blocks.p.l /\ blocks.p.l <= blocks.p.r /\ blocks.p.r <= Len(v)
    /\ (blocks.is_done /\ blocks.pc \in {"trace", "exchange"}) =>
         /\ 0 <= blocks.p.block_l /\ blocks.p.block_l <= BLOCK
         /\ 0 <= blocks.p.block_r /\ blocks.p.block_r <= BLOCK
         /\ blocks.p.block_l + blocks.p.block_r = width(blocks.p.l, blocks.p.r)

\* The final pass of a view of more than two blocks, its block sizes
\* adjusted while offsets of the left block are still pending.
C16_Witness ==
  /\ op = "partition_in_blocks" /\ blocks.pc = "trace" /\ blocks.is_done
  /\ Len(v) > 2 * BLOCK
  /\ blocks.p.start_l < blocks.p.end_l
  /\ blocks.p.block_r > 0 /\ blocks.p.block_r < BLOCK

\* The view w with its element at index from taken out and put in again
\* at index to, the elements between moved one place towards from.
MovedTo(w, from, to) ==
  [k \in 1..Len(w) |->
     IF k - 1 = to THEN At(w, from)
     ELSE IF from <= k - 1 /\ k - 1 < to THEN At(w, k)
     ELSE IF to < k - 1 /\ k - 1 <= from THEN At(w, k - 2)
     ELSE At(w, k - 1)]

\* C18: when the comparator aborts at any comparison of shift_head or
\* shift_tail, called directly or by insertion_sort or
\* partial_insertion_sort, the element held out is written back into the
\* hole: the slice is a permutation of its contents at call entry, and
\* after shift_head or shift_tail itself it is those contents with the
\* first (the last) element moved to one place and nothing else changed
\* but the elements it passed.
C18_HoleWrittenBack ==
  (pc = "panicked"
     /\ op \in {"shift_head", "shift_tail", "insertion_sort",
                "partial_insertion_sort"}) =>
    /\ ret.kind = "panic"
    /\ IsPermutation(v, orig)
    /\ op = "shift_head" =>
         \E h \in 0..(Len(v) - 1) : v = MovedTo(orig, 0, h)
    /\ op = "shift_tail" =>
         \E h \in 0..(Len(v) - 1) : v = MovedTo(orig, Len(v) - 1, h)

\* partial_insertion_sort unwound while a shift was under way: elements
\* had been moved already.
C18_Witness ==
  /\ pc = "panicked" /\ op = "partial_insertion_sort"
  /\ Len(v) >= SHORTEST_SHIFTING
  /\ v # orig
  /\ \E i \in 2..(Len(v) - 1) : At(v, i) # At(orig, i) /\ At(v, i - 2) # At(orig, i - 2)

\* The comparator is a total order of the elements.
IsTotalOrder(c) == c.kind \in {"lt", "cmp", "rev"}

\* No element of the frame's view is less than the frame's predecessor.
PredIsLowerBound(c, root, f) ==
  f.pred # <<>> =>
    \A i \in f.lo..(f.hi - 1) : ~Less(c, At(root, i), At(root, f.pred[1]))

\* In the iteration about to run, partition_equal's assumption holds.
PartitionEqualAssumption ==
  \E q \in {recurse_at_pred(v, Top, cmpk, ncalls)} : NoneSmaller(cmpk, q.v, q.pivot)

\* C20: during a sort with a total order, no element of the view of a frame
\* of the driver is less than the predecessor the frame holds, and whenever
\* an iteration of the driver calls partition_equal, the view it passes
\* holds no element smaller than the pivot.
C20_PredecessorBound ==
  /\ [](IsTotalOrder(cmpk) /\ pc = "recurse" =>
          \A k \in 1..Len(stack) : PredIsLowerBound(cmpk, v, stack[k]))
  /\ [][(IsTotalOrder(cmpk) /\ pc = "recurse" /\ stack # <<>>
           /\ ret'.via = "partition_equal")
          => PartitionEqualAssumption]_vars

\* partition_equal has just run on a view with a predecessor, and elements
\* greater than the predecessor are left in the view.
C20_Witness ==
  /\ IsTotalOrder(cmpk) /\ pc = "recurse" /\ stack # <<>>
  /\ ret.kind = "ok" /\ ret.via = "partition_equal"
  /\ Top.pred # <<>>
  /\ Top.lo < Top.hi
  /\ \E i \in Top.lo..(Top.hi - 1) : Less(cmpk, At(v, Top.pred[1]), At(v, i))

\* The iteration that the innermost frame is about to make runs
\* `if !was_balanced { break_patterns(v); limit -= 1; }`.
Decrements ==
  /\ pc = "recurse" /\ stack # <<>>
  /\ ViewLen(Top) > MAX_INSERTION
  /\ Top.limit # 0
  /\ recurse_limit(Top) # Top.limit

\* The iteration the innermost frame made before this one was a general
\* partition: the call it made on one side has returned since.
AfterPartition ==
  ret.kind = "ok"
    /\ ret.via \in {"insertion_sort", "heapsort", "partial_insertion_sort"}

\* The iteration the innermost frame made before this one was a
\* partition_equal, after which the loop continued.
AfterPartitionEqual == ret.kind = "ok" /\ ret.via = "partition_equal"

Continued == stack'[Len(stack)]

SplitAt ==
  IF stack'[Len(stack')].lo = Top.lo
  THEN stack'[Len(stack')].hi ELSE stack'[Len(stack')].lo - 1

Imbalanced(mid, len) == Min2(mid, len - mid) < len \div 8

RECURSIVE Pow2(_)
Pow2(k) == IF k <= 0 THEN 1 ELSE 2 * Pow2(k - 1)

\* b is floor(log2(n)) + 1 for n >= 1, and 0 for n = 0.
IsLog2Plus1(b, n) ==
  IF n = 0 THEN b = 0 ELSE b >= 1 /\ Pow2(b - 1) <= n /\ n < Pow2(b)

\* C22: const_quicksort starts the driver with the budget
\* usize::BITS - leading_zeros(n), which is floor(log2(n)) + 1 for n >= 1
\* and 0 for n = 0; during the run the budget of every frame is between 0
\* and the initial budget, and it is decremented only when it is at least 1.
C22_BudgetRange ==
  pc = "recurse" =>
    /\ IsLog2Plus1(USIZE_BITS - leading_zeros(Len(v)), Len(v))
    /\ (ncalls = 0 /\ ret.kind = "none") =>
         stack = <<Frame(0, Len(v), <<>>, USIZE_BITS - leading_zeros(Len(v)))>>
    /\ \A k \in 1..Len(stack) :
         /\ 0 <= stack[k].limit
         /\ stack[k].limit <= USIZE_BITS - leading_zeros(Len(v))
    /\ Decrements => Top.limit >= 1

\* The budget of the innermost frame is used up on a view that insertion
\* sort does not take.
C22_Witness ==
  /\ pc = "recurse" /\ stack # <<>>
  /\ Top.limit = 0
  /\ ViewLen(Top) > MAX_INSERTION

\* The indices of a frame's view.
ViewOf(f) == f.lo..(f.hi - 1)

\* The slice with every element that the frame may not touch replaced by
\* a value found nowhere in it: all but its view and its predecessor.
Scrubbed(root, f) ==
  [k \in 1..Len(root) |->
     IF (k - 1) \in ViewOf(f) \/ f.pred = <<k - 1>> THEN root[k] ELSE -1]

\* The step of the innermost frame comes out the same on the scrubbed
\* slice, and leaves everything outside the frame's view as it was.
StepStaysInView ==
  \E o \in {recurse_iter(Scrubbed(v, Top), Top, cmpk, ncalls)} :
    /\ o.n = ncalls'
    /\ o.err = ret'.kind
    /\ stack' = StackAfter(stack, o)
    /\ \A i \in 0..(Len(v) - 1) :
         IF i \in ViewOf(Top)
         THEN At(o.v, i) = At(v', i)
         ELSE At(o.v, i) = At(Scrubbed(v, Top), i) /\ At(v', i) = At(v, i)

\* C23: after each general partition of the driver the view handed to the
\* recursive call, the position of the pivot and the view the loop
\* continues with are pairwise disjoint and together exactly the frame's
\* view; the views of the frames on the stack are disjoint parts of the
\* slice; and a step of a frame reads nothing outside its view but its
\* predecessor and writes nothing outside its view.
C23_DisjointViews ==
  /\ [](pc = "recurse" =>
          \A j \in 1..Len(stack) :
            /\ 0 <= stack[j].lo /\ stack[j].lo <= stack[j].hi
            /\ stack[j].hi <= Len(v)
            /\ \A k \in 1..Len(stack) :
                 j # k => ViewOf(stack[j]) \cap ViewOf(stack[k]) = {})
  /\ [][(pc = "recurse" /\ stack # <<>>) =>
         /\ StepStaysInView
         /\ Len(stack') > Len(stack) =>
              /\ SplitAt \in ViewOf(Top)
              /\ SplitAt \notin ViewOf(Continued)
              /\ SplitAt \notin ViewOf(stack'[Len(stack')])
              /\ ViewOf(Continued) \cap ViewOf(stack'[Len(stack')]) = {}
              /\ ViewOf(Continued) \cup ViewOf(stack'[Len(stack')]) \cup {SplitAt}
                   = ViewOf(Top)]_vars

\* A general partition has split a view that is part of the slice into two
\* sides with elements in both.
C23_Witness ==
  /\ pc = "recurse" /\ Len(stack) >= 2
  /\ ret.via = "partition"
  /\ ViewLen(Top) > 0
  /\ ViewLen(stack[Len(stack) - 1]) > 0
  /\ ViewLen(Top) + ViewLen(stack[Len(stack) - 1]) + 1 < Len(v)

\* C24 as stated: for len < 8 choose_pivot returns floor(len / 2), calls
\* the comparator not once and leaves the view as it is.
C24_MiddleIndex ==
  (op = "choose_pivot" /\ Len(orig) < 8) =>
    /\ ret.kind = "ok"
    /\ ret.pivot = Len(orig) \div 2
    /\ ncalls = 0
    /\ v = orig

\* C24, amended: for len < 8 choose_pivot returns 2 * floor(len / 4) (0 for
\* len < 4 and 2 for len 4 to 7) with likely_sorted true, calls the
\* comparator not once and leaves the view as it is.
C24_TwiceTheQuarter ==
  (op = "choose_pivot" /\ Len(orig) < 8) =>
    /\ ret.kind = "ok"
    /\ ret.pivot = 2 * (Len(orig) \div 4)
    /\ ret.pivot = (IF Len(orig) < 4 THEN 0 ELSE 2)
    /\ ret.likely_sorted
    /\ ncalls = 0
    /\ v = orig

\* choose_pivot has returned on a view of 6 or 7 elements, whose middle
\* index is 3.
C24_Witness ==
  /\ op = "choose_pivot" /\ pc = "done"
  /\ Len(orig) \in {6, 7}
  /\ ret.pivot = 2

\* The median of three elements under the order c: the one with at most
\* one of the three before it and at most one after it.
Med3(c, p, q, r) ==
  CHOOSE x \in {p, q, r} :
    /\ Cardinality({i \in 1..3 : Less(c, <<p, q, r>>[i], x)}) <= 1
    /\ Cardinality({i \in 1..3 : Less(c, x, <<p, q, r>>[i])}) <= 1

\* The element of the candidate near index i: from
\* SHORTEST_MEDIAN_OF_MEDIANS elements on the median of v[i - 1], v[i] and
\* v[i + 1], below that v[i].
Candidate(c, w, i) ==
  IF Len(w) >= SHORTEST_MEDIAN_OF_MEDIANS
  THEN Med3(c, At(w, i - 1), At(w, i), At(w, i + 1))
  ELSE At(w, i)

\* The indices a candidate near index i can have.
CandidateIndices(w, i) ==
  IF Len(w) >= SHORTEST_MEDIAN_OF_MEDIANS THEN {i - 1, i, i + 1} ELSE {i}

\* C25: for len >= 8, a total order and fewer than MAX_SWAPS swaps,
\* choose_pivot leaves the view unchanged and returns an index inside the
\* view whose element is the median of the three candidates, which are the
\* elements at len/4, 2*(len/4) and 3*(len/4), each replaced from 50
\* elements on by the median of itself and its two neighbours; the flag is
\* true exactly when no swap was made.
C25_MedianOfCandidates ==
  (op = "choose_pivot" /\ Len(orig) >= 8 /\ IsTotalOrder(cmpk)
     /\ ret.swaps < MAX_SWAPS) =>
    /\ ret.kind = "ok"
    /\ v = orig
    /\ InB(v, ret.pivot)
    /\ ret.pivot \in UNION {CandidateIndices(v, k * (Len(v) \div 4)) : k \in 1..3}
    /\ At(v, ret.pivot)
         = Med3(cmpk, Candidate(cmpk, v, Len(v) \div 4),
                      Candidate(cmpk, v, 2 * (Len(v) \div 4)),
                      Candidate(cmpk, v, 3 * (Len(v) \div 4)))
    /\ ret.likely_sorted = (ret.swaps = 0)

\* choose_pivot has returned on a view of at least 50 elements after some
\* swaps, with a neighbour of a candidate as the pivot.
C25_Witness ==
  /\ op = "choose_pivot" /\ pc = "done" /\ IsTotalOrder(cmpk)
  /\ Len(orig) >= SHORTEST_MEDIAN_OF_MEDIANS
  /\ ret.swaps > 0 /\ ret.swaps < MAX_SWAPS
  /\ ~ret.likely_sorted
  /\ ret.pivot \notin {k * (Len(v) \div 4) : k \in 1..3}

\* C26: when ordering the candidates takes MAX_SWAPS swaps, choose_pivot
\* reverses the whole view in place and returns (len - 1 - b, true), b
\* being the index of the median candidate before the reversal: the index
\* returned holds in the reversed view the element that was selected.
C26_ReversedView ==
  (op = "choose_pivot" /\ ret.swaps >= MAX_SWAPS) =>
    /\ ret.kind = "ok"
    /\ ret.swaps = MAX_SWAPS
    /\ v = Reverse(orig)
    /\ \A i \in 0..(Len(v) - 1) : At(v, i) = At(orig, Len(v) - 1 - i)
    /\ ret.pivot = Len(orig) - 1 - ret.b
    /\ ret.likely_sorted
    /\ InB(v, ret.pivot)
    /\ At(v, ret.pivot) = At(orig, ret.b)

\* choose_pivot has reversed a view that is no palindrome around a pivot
\* that is not in the middle.
C26_Witness ==
  /\ op = "choose_pivot" /\ pc = "done"
  /\ ret.swaps = MAX_SWAPS
  /\ v # orig
  /\ ret.pivot # ret.b
  /\ At(orig, ret.pivot) # At(orig, ret.b)

\* No adjacent pair of w with is_less(w[i], w[i - 1]).
IsSortedBy(c, w) ==
  \A i \in 1..(Len(w) - 1) : ~Less(c, At(w, i), At(w, i - 1))

\* partial_insertion_sort has returned, called with a comparator that
\* answers by the elements.
PartialReturned ==
  op = "partial_insertion_sort" /\ pc = "done" /\ IsTotalOrder(cmpk)

C27_SortedButFalse ==
  /\ PartialReturned
  /\ ~ret.value
  /\ Len(v) >= SHORTEST_SHIFTING
  /\ IsSortedBy(cmpk, v)

C28_ShortViewFalse ==
  (op = "partial_insertion_sort" /\ pc = "done"
     /\ Len(orig) < SHORTEST_SHIFTING) =>
    /\ v = orig
    /\ ~ret.value

\* C28, amended: on a view of fewer than SHORTEST_SHIFTING elements
\* partial_insertion_sort leaves the view unchanged, makes at most len - 1
\* comparisons, and returns true when the view has at least one element
\* and no adjacent pair out of order, and false otherwise.
C28_ShortViewUnchanged ==
  (op = "partial_insertion_sort" /\ pc = "done"
     /\ Len(orig) < SHORTEST_SHIFTING) =>
    /\ v = orig
    /\ Len(v) = 0 => (~ret.value /\ ncalls = 0)
    /\ Len(v) >= 1 => ncalls <= Len(v) - 1
    /\ ret.value => ncalls = Len(v) - 1
    /\ IsTotalOrder(cmpk) =>
         (ret.value = (Len(v) >= 1 /\ IsSortedBy(cmpk, v)))

\* partial_insertion_sort has found a pair out of order in a view one
\* element short of SHORTEST_SHIFTING and returned false.
C28_Witness ==
  /\ op = "partial_insertion_sort" /\ pc = "done"
  /\ Len(orig) = SHORTEST_SHIFTING - 1
  /\ ~ret.value
  /\ ncalls > 0
  /\ ~IsSortedBy(cmpk, v)

\* The second operand of a swap of break_patterns on len elements: the
\* usize drawn, taken modulo the next power of two and reduced by len once.
BreakOther(len, g) ==
  IF LowBits(g.val, next_power_of_two(len), 0) >= len
  THEN LowBits(g.val, next_power_of_two(len), 0) - len
  ELSE LowBits(g.val, next_power_of_two(len), 0)

\* The second operands of the three swaps: the numbers drawn from the
\* xorshift generator seeded with len, reduced.
DrawThird(len, g1, g2) ==
  <<BreakOther(len, g1), BreakOther(len, g2),
    BreakOther(len, gen_usize(g2.random))>>

DrawSecond(len, g1) == DrawThird(len, g1, gen_usize(g1.random))

Others(len) == DrawSecond(len, gen_usize(ToBits(len, 32, 0)))

\* w after the three swaps (pos - 1, o[1]), (pos, o[2]), (pos + 1, o[3]).
ThreeSwaps(w, pos, o) ==
  Swap(Swap(Swap(w, pos - 1, o[1]), pos, o[2]), pos + 1, o[3])

\* What break_patterns makes of the view 0, 1, ..., len - 1.
BreakPermutation(len) == break_patterns(St([k \in 1..len |-> k - 1], 0)).v

\* C29: for len >= 8 break_patterns makes exactly three swaps, of the
\* indices 2*(len/4) - 1, 2*(len/4) and 2*(len/4) + 1 with xorshift values
\* (seed len) reduced into 0..len - 1, all six indices inside the view, so
\* that views of equal length are rearranged by one and the same
\* permutation of the indices; for len < 8 the view is left as it is.
C29_ThreeSwapsByLength ==
  op = "break_patterns" =>
    /\ ret.kind = "ok"
    /\ Len(v) = Len(orig)
    /\ Len(v) < 8 => v = orig
    /\ Len(v) >= 8 =>
         /\ \E o \in {Others(Len(v))} :
              /\ \A i \in 1..3 :
                   InB(v, 2 * (Len(v) \div 4) - 2 + i) /\ InB(v, o[i])
              /\ v = ThreeSwaps(orig, 2 * (Len(v) \div 4), o)
         /\ \E p \in {BreakPermutation(Len(v))} :
              v = [k \in 1..Len(v) |-> At(orig, p[k])]
         /\ Len(v) <= 2 * MaxLen + 1 =>
              \E o \in [1..3 -> 0..(Len(v) - 1)] :
                v = ThreeSwaps(orig, 2 * (Len(v) \div 4), o)

\* break_patterns has rearranged a view of at least 8 elements.
C29_Witness ==
  /\ op = "break_patterns" /\ pc = "done"
  /\ Len(v) >= 8
  /\ v # orig
  /\ At(v, 2 * (Len(v) \div 4)) # At(orig, 2 * (Len(v) \div 4))

----------------------------------------------------------------------------
(* const_sort.rs: const_copy_sort on [u64; N].  The array is taken by      *)
(* value, so self is the callee's copy; indices are isize, every access    *)
(* self[k as usize] is bounds checked and aborts outside 0..N-1.           *)

\* the guard of debug_assert!: debug_assertions is set by the build
debug_assert(cond, debug_assertions) == debug_assertions => cond

copy_swap_overwrite(w, i, j) == [w EXCEPT ![i + 1] = w[j + 1]]

\* let tmp = self[i]; self[i] = self[j]; self[j] = tmp;
copy_swap(w, i, j) == [w EXCEPT ![i + 1] = w[j + 1], ![j + 1] = w[i + 1]]

\* while self[i as usize] < p { i += 1; }
RECURSIVE copy_scan_up(_, _, _)
copy_scan_up(w, i, p) ==
  IF ~InB(w, i) THEN [k |-> i, err |-> "panic"]
  ELSE IF At(w, i) < p THEN copy_scan_up(w, i + 1, p)
  ELSE [k |-> i, err |-> "ok"]

\* while self[j as usize] > p { j -= 1; }
RECURSIVE copy_scan_down(_, _, _)
copy_scan_down(w, j, p) ==
  IF ~InB(w, j) THEN [k |-> j, err |-> "panic"]
  ELSE IF At(w, j) > p THEN copy_scan_down(w, j - 1, p)
  ELSE [k |-> j, err |-> "ok"]

\* the inner loop: scan from both ends, exchange, step, until i > j
RECURSIVE copy_partition(_, _, _, _)
copy_partition(w, i, j, p) ==
  LET up == copy_scan_up(w, i, p) IN
  IF up.err # "ok" THEN [v |-> w, i |-> up.k, j |-> j, err |-> up.err]
  ELSE
    LET down == copy_scan_down(w, j, p) IN
    IF down.err # "ok"
      THEN [v |-> w, i |-> up.k, j |-> down.k, err |-> down.err]
    ELSE
      LET w2 == IF up.k <= down.k /\ up.k # down.k
                  THEN copy_swap(w, up.k, down.k) ELSE w
          i2 == IF up.k <= down.k THEN up.k + 1 ELSE up.k
          j2 == IF up.k <= down.k THEN down.k - 1 ELSE down.k
      IN IF i2 > j2 THEN [v |-> w2, i |-> i2, j |-> j2, err |-> "ok"]
         ELSE copy_partition(w2, i2, j2, p)

RECURSIVE const_copy_sort(_, _, _, _)
RECURSIVE copy_loop(_, _, _, _)

\* the outer loop: partition low..=high around the middle element, sort the
\* shorter side by a call and go on with the longer one
copy_loop(w, low, high, debug_assertions) ==
  LET mid == low + ((high - low) \div 2) IN
  IF ~InB(w, mid) THEN [v |-> w, err |-> "panic"]
  ELSE
    LET part == copy_partition(w, low, high, At(w, mid)) IN
    IF part.err # "ok" THEN [v |-> part.v, err |-> part.err]
    ELSE
      LET left == part.j - low < high - part.i
          sub == IF left
                   THEN IF low < part.j
                          THEN const_copy_sort(part.v, low, part.j,
                                               debug_assertions)
                          ELSE [v |-> part.v, err |-> "ok"]
                   ELSE IF part.i < high
                          THEN const_copy_sort(part.v, part.i, high,
                                               debug_assertions)
                          ELSE [v |-> part.v, err |-> "ok"]
          low2 == IF left THEN part.i ELSE low
          high2 == IF left THEN high ELSE part.j
      IN IF sub.err # "ok" THEN sub
         ELSE IF low2 >= high2 THEN sub
         ELSE copy_loop(sub.v, low2, high2, debug_assertions)

const_copy_sort(w, low, high, debug_assertions) ==
  IF ~debug_assert(high < Len(w), debug_assertions)
    THEN [v |-> w, err |-> "assert"]
  ELSE
    LET range == high - low IN
    IF range <= 0 \/ range >= Len(w) THEN [v |-> w, err |-> "ok"]
    ELSE copy_loop(w, low, high, debug_assertions)

\* Arrays of 1..MaxLen values, longer ones of two values, and longer ones
\* of many values in several orders.
CopyInputs ==
  (ShortInputs \ {<<>>})
  \cup UNION {[1..len -> 0..1] : len \in (MaxLen + 1)..(MaxLen + 3)}
  \cup {[k \in 1..len |-> (k * m) % len] :
          len \in {2 * MaxLen + 1, 2 * MaxLen + 3}, m \in 1..(2 * MaxLen)}

InitCopy ==
  /\ v \in CopyInputs
  /\ orig = v
  /\ pc = "idle"
  /\ op = "none"
  /\ cmpk = Cmp("lt")
  /\ ncalls = 0
  /\ stack = <<>>
  /\ heap = [pc |-> "done"]
  /\ scan = [i |-> 0, answers |-> <<>>]
  /\ blocks = [pc |-> "done"]
  /\ ret = [kind |-> "none"]

\* self.const_copy_sort(low, high): the arguments are any two indices up to
\* N, in a build with or without debug assertions; v becomes the returned
\* array, and stays the caller's array when the call aborts.
CallConstCopySort ==
  /\ pc = "idle"
  /\ \E low \in 0..Len(v), high \in 0..Len(v), debug_assertions \in BOOLEAN :
       \E o \in {const_copy_sort(v, low, high, debug_assertions)} :
         /\ v' = IF o.err = "ok" THEN o.v ELSE v
         /\ pc' = IF o.err = "ok" THEN "done" ELSE "panicked"
         /\ ret' = [kind |-> o.err, low |-> low, high |-> high,
                    debug_assertions |-> debug_assertions]
  /\ op' = "const_copy_sort"
  /\ UNCHANGED <<orig, cmpk, ncalls, stack, heap, scan, blocks>>

NextCopy == CallConstCopySort

SpecCopy == InitCopy /\ [][NextCopy]_vars

CopyReturned == op = "const_copy_sort" /\ pc \in {"done", "panicked"}

\* C30: for 0 <= low < high < N the call makes no access outside the array
\* and returns a permutation of the input whose positions low..=high are in
\* non-decreasing order and whose other positions are as they were; for
\* low >= high the array comes back unchanged.
C30_CopySortRange ==
  CopyReturned =>
    /\ (ret.low < ret.high /\ ret.high < Len(orig)) =>
         /\ ret.kind = "ok"
         /\ IsPermutation(v, orig)
         /\ \A k \in ret.low..(ret.high - 1) : At(v, k) <= At(v, k + 1)
         /\ \A k \in 0..(Len(orig) - 1) :
              (k < ret.low \/ k > ret.high) => At(v, k) = At(orig, k)
    /\ (ret.low >= ret.high
        /\ (ret.high < Len(orig) \/ ~ret.debug_assertions)) =>
         /\ ret.kind = "ok"
         /\ v = orig

C30_Witness ==
  /\ CopyReturned
  /\ ret.kind = "ok"
  /\ 0 < ret.low
  /\ ret.low + 2 < ret.high
  /\ ret.high < Len(orig) - 1
  /\ v # orig
  /\ \E k \in ret.low..(ret.high - 1) : At(orig, k) > At(orig, k + 1)

====
